---- MODULE Spec2Model ----
(***************************************************************************)
(* pdftoc: inference of a table of contents from the text of a PDF and its *)
(* injection as bookmarks.  Strings are sequences of one-character         *)
(* strings; the regular expressions of the source are transcribed as       *)
(* syntax trees and run by a backtracking matcher with the priorities of   *)
(* Python's re module.                                                     *)
(***************************************************************************)
EXTENDS Integers, Sequences, FiniteSets, TLC

VARIABLES
    pc,           \* position of the operation under way
    input,        \* arguments of the call
    result,       \* what the call returned, or the exception it raised
    files,        \* the file system: path -> file
    locals,       \* local variables of process_pdf and add_bookmarks
    handles,      \* the functions holding a document opened by fitz.open
    trace         \* the stages run so far, in order

vars == <<pc, input, result, files, locals, handles, trace>>

(***************************************************************************)
(* Characters and the str methods the source uses.                         *)
(***************************************************************************)
DigitSeq == <<"0", "1", "2", "3", "4", "5", "6", "7", "8", "9">>
UpperSeq == <<"A", "B", "C", "D", "E", "F", "G", "H", "I", "J", "K", "L", "M",
              "N", "O", "P", "Q", "R", "S", "T", "U", "V", "W", "X", "Y", "Z">>
LowerSeq == <<"a", "b", "c", "d", "e", "f", "g", "h", "i", "j", "k", "l", "m",
              "n", "o", "p", "q", "r", "s", "t", "u", "v", "w", "x", "y", "z">>

Range(f) == {f[i] : i \in DOMAIN f}

DigitChars == Range(DigitSeq)
UpperChars == Range(UpperSeq)
LowerChars == Range(LowerSeq)
AlphaChars == UpperChars \cup LowerChars
\* \s and \w of the re module, over ASCII
SpaceChars == {" ", "\t", "\n", "\r", "\f"}
WordChars == AlphaChars \cup DigitChars \cup {"_"}

\* the letter of to at the place c has in from, c itself if it has none
Recase(c, from, to) ==
    IF \E i \in 1..26 : from[i] = c THEN to[CHOOSE i \in 1..26 : from[i] = c] ELSE c

LowerOf(c) == Recase(c, UpperSeq, LowerSeq)
UpperOf(c) == Recase(c, LowerSeq, UpperSeq)

\* str.lower(), str.upper()
StrLower(s) == [i \in 1..Len(s) |-> LowerOf(s[i])]
StrUpper(s) == [i \in 1..Len(s) |-> UpperOf(s[i])]

\* str.isupper(): some cased character, and no lowercase one
IsUpperStr(s) ==
    /\ \E i \in 1..Len(s) : s[i] \in UpperChars
    /\ \A i \in 1..Len(s) : s[i] \notin LowerChars

\* str.strip()
Strip(s) ==
    LET keep == {i \in 1..Len(s) : s[i] \notin SpaceChars}
    IN  IF keep = {} THEN <<>>
        ELSE SubSeq(s, CHOOSE i \in keep : \A j \in keep : i <= j,
                       CHOOSE i \in keep : \A j \in keep : i >= j)

\* needle in hay
Contains(hay, needle) ==
    \E i \in 0..(Len(hay) - Len(needle)) : SubSeq(hay, i + 1, i + Len(needle)) = needle

\* str.endswith(suffixes)
EndsWithAny(s, chars) == Len(s) > 0 /\ s[Len(s)] \in chars

\* str.count(c)
CountChar(s, c) == Cardinality({i \in 1..Len(s) : s[i] = c})

\* str.split(sep) for a one-character separator: "" splits into [""]
RECURSIVE SplitFrom(_, _, _)
SplitFrom(s, sep, from) ==
    LET cut == {i \in from..Len(s) : s[i] = sep}
    IN  IF cut = {} THEN <<SubSeq(s, from, Len(s))>>
        ELSE LET i == CHOOSE k \in cut : \A j \in cut : k <= j
             IN  <<SubSeq(s, from, i - 1)>> \o SplitFrom(s, sep, i + 1)

Split(s, sep) == SplitFrom(s, sep, 1)

\* str.split(): runs of whitespace separate, no empty words
RECURSIVE SplitWordsFrom(_, _)
SplitWordsFrom(s, from) ==
    LET starts == {i \in from..Len(s) : s[i] \notin SpaceChars}
    IN  IF starts = {} THEN <<>>
        ELSE LET b == CHOOSE k \in starts : \A j \in starts : k <= j
                 stops == {i \in b..Len(s) : s[i] \in SpaceChars}
                 e == IF stops = {} THEN Len(s) + 1
                      ELSE CHOOSE k \in stops : \A j \in stops : k <= j
             IN  <<SubSeq(s, b, e - 1)>> \o SplitWordsFrom(s, e)

SplitWords(s) == SplitWordsFrom(s, 1)

\* sep.join(parts)
RECURSIVE Join(_, _)
Join(parts, sep) ==
    IF parts = <<>> THEN <<>>
    ELSE IF Len(parts) = 1 THEN parts[1]
    ELSE parts[1] \o sep \o Join(Tail(parts), sep)

\* int(s) of a string of digits
DigitValue(c) == (CHOOSE i \in 1..10 : DigitSeq[i] = c) - 1

RECURSIVE ParseInt(_)
ParseInt(s) ==
    IF s = <<>> THEN 0
    ELSE 10 * ParseInt(SubSeq(s, 1, Len(s) - 1)) + DigitValue(s[Len(s)])

(***************************************************************************)
(* Regular expressions: syntax trees and Python's backtracking matcher.    *)
(***************************************************************************)
Chr(S) == [t |-> "chr", set |-> S]
AnyChar == [t |-> "any"]                       \* "." : any character but a newline
Cat(items) == [t |-> "cat", items |-> items]
Alt(items) == [t |-> "alt", items |-> items]
\* r{lo,hi}; hi = -1 is unbounded; lazy is the "?" suffix
Rep(r, lo, hi, lazy) == [t |-> "rep", r |-> r, lo |-> lo, hi |-> hi, lazy |-> lazy]
Star(r) == Rep(r, 0, -1, FALSE)
Plus(r) == Rep(r, 1, -1, FALSE)
Opt(r) == Rep(r, 0, 1, FALSE)
Grp(id, r) == [t |-> "grp", id |-> id, r |-> r]
Bol == [t |-> "bol"]                           \* ^
Eol == [t |-> "eol"]                           \* $
Lit(w) == Cat([i \in 1..Len(w) |-> Chr({w[i]})])

MaxGroups == 4
NoGroups == [g \in 1..MaxGroups |-> <<>>]
NoMatch == [ok |-> FALSE, end |-> 0, caps |-> NoGroups]

\* under re.IGNORECASE a character is accepted in either case
InClass(cx, c, S) == c \in S \/ (cx.ic /\ {LowerOf(c), UpperOf(c)} \cap S # {})

\* whether the one-character node n ("chr" or "any") accepts c
CharOK(cx, n, c) == IF n.t = "any" THEN c # "\n" ELSE InClass(cx, c, n.set)

SetMin(S) == CHOOSE x \in S : \A y \in S : x <= y
SetMax(S) == CHOOSE x \in S : \A y \in S : x >= y

\* the longest run of characters from position i that n accepts, at most hi
RunLength(cx, n, i, hi) ==
    LET free == SetMin({j \in i..Len(cx.s) : ~CharOK(cx, n, cx.s[j])}
                       \cup {Len(cx.s) + 1}) - i
    IN  IF hi >= 0 /\ hi < free THEN hi ELSE free

\* the first of two attempts that matches
OrElse(first, second) == IF first.ok THEN first ELSE second

\* cx = [s, ic, ml]: the subject, re.IGNORECASE, re.MULTILINE.  todo is the
\* stack of nodes still to match from position i.  The first alternative
\* that lets the rest match wins, as in Python: a greedy repetition takes
\* the longest count for which the rest matches, a lazy one the shortest.
RECURSIVE Run(_, _, _, _)

\* r{lo,hi} of a one-character r, good being the counts after which the rest
\* matches: the largest if greedy, the smallest if lazy
RunCounted(cx, rest, i, caps, good, lazy) ==
    IF good = {} THEN NoMatch
    ELSE Run(cx, rest, i + (IF lazy THEN SetMin(good) ELSE SetMax(good)), caps)

\* r{lo,hi} of any other r: more is one more r and then the rest, stop the
\* rest at once
RunRepeated(n, more, stop) ==
    IF n.lo > 0 THEN more
    ELSE IF n.hi = 0 THEN stop
    ELSE IF n.lazy THEN OrElse(stop, more) ELSE OrElse(more, stop)

Run(cx, todo, i, caps) ==
    IF todo = <<>> THEN [ok |-> TRUE, end |-> i, caps |-> caps]
    ELSE
    LET n == Head(todo)
        rest == Tail(todo)
        len == Len(cx.s)
    IN  CASE n.t \in {"chr", "any"} ->
               IF i <= len /\ CharOK(cx, n, cx.s[i])
               THEN Run(cx, rest, i + 1, caps) ELSE NoMatch
          [] n.t = "bol" ->
               IF i = 1 \/ (cx.ml /\ i > 1 /\ cx.s[i - 1] = "\n")
               THEN Run(cx, rest, i, caps) ELSE NoMatch
          [] n.t = "eol" ->
               IF \/ i = len + 1
                  \/ (i = len /\ cx.s[i] = "\n")
                  \/ (cx.ml /\ i <= len /\ cx.s[i] = "\n")
               THEN Run(cx, rest, i, caps) ELSE NoMatch
          [] n.t = "cat" -> Run(cx, n.items \o rest, i, caps)
          [] n.t = "alt" ->
               IF n.items = <<>> THEN NoMatch
               ELSE OrElse(Run(cx, <<Head(n.items)>> \o rest, i, caps),
                           Run(cx, <<Alt(Tail(n.items))>> \o rest, i, caps))
          [] n.t = "rep" /\ n.r.t \in {"chr", "any"} ->
               RunCounted(cx, rest, i, caps,
                          {k \in n.lo..RunLength(cx, n.r, i, n.hi) :
                              Run(cx, rest, i + k, caps).ok},
                          n.lazy)
          [] n.t = "rep" /\ n.r.t \notin {"chr", "any"} ->
               RunRepeated(n,
                           Run(cx, <<n.r, Rep(n.r, IF n.lo > 0 THEN n.lo - 1 ELSE 0,
                                              IF n.hi > 0 THEN n.hi - 1 ELSE n.hi, n.lazy)>>
                                   \o rest, i, caps),
                           Run(cx, rest, i, caps))
          [] n.t = "grp" ->
               Run(cx, <<n.r, [t |-> "end", id |-> n.id, from |-> i]>> \o rest, i, caps)
          [] n.t = "end" ->
               Run(cx, rest, i, [caps EXCEPT ![n.id] = SubSeq(cx.s, n.from, i - 1)])

PlainFlags == [ic |-> FALSE, ml |-> FALSE]
IgnoreCase == [ic |-> TRUE, ml |-> FALSE]
MultiLine == [ic |-> FALSE, ml |-> TRUE]

MatchAt(re, s, flags, i) == Run([s |-> s, ic |-> flags.ic, ml |-> flags.ml], <<re>>, i, NoGroups)

\* re.match(re, s, flags)
ReMatch(re, s, flags) == MatchAt(re, s, flags, 1)

\* re.search(re, s)
ReSearch(re, s, flags) == \E i \in 1..(Len(s) + 1) : MatchAt(re, s, flags, i).ok

\* the leftmost of the attempts tried[j] at the positions j, if one matches
Leftmost(s, tried) ==
    LET at == {j \in DOMAIN tried : tried[j].ok}
    IN  IF at = {} THEN [ok |-> FALSE]
        ELSE [ok |-> TRUE, from |-> SetMin(at), end |-> tried[SetMin(at)].end,
              text |-> SubSeq(s, SetMin(at), tried[SetMin(at)].end - 1),
              caps |-> tried[SetMin(at)].caps]

\* re.finditer: the matches [from, end, text, caps] left to right, not
\* overlapping; the search goes on after a match, one further on if it is empty
RECURSIVE FindIter(_, _, _, _)

FindOn(re, s, flags, m) ==
    IF ~m.ok THEN <<>>
    ELSE <<m>> \o FindIter(re, s, flags, IF m.end > m.from THEN m.end ELSE m.from + 1)

FindIter(re, s, flags, i) ==
    FindOn(re, s, flags, Leftmost(s, [j \in i..(Len(s) + 1) |-> MatchAt(re, s, flags, j)]))

\* the field f of each match
Column(ms, f) == [k \in DOMAIN ms |-> ms[k][f]]

\* re.findall of a pattern without groups: the matched substrings
FindAllText(re, s, flags) == Column(FindIter(re, s, flags, 1), "text")

\* re.findall of a pattern with groups: the tuples of groups
FindAllGroups(re, s, flags) == Column(FindIter(re, s, flags, 1), "caps")

(***************************************************************************)
(* models.py: TocEntry                                                     *)
(***************************************************************************)
TocEntry(level, title, page) == [level |-> level, title |-> title, page |-> page]

\* the key without lower(): titles that differ in case are different
TitlePageKey(e) == <<e.title, e.page>>

\* the key entries are compared by when deduplicated: (title.lower(), page)
DedupKey(e) == <<StrLower(e.title), e.page>>

\* list.sort(key=lambda e: (e.page, e.level)): stable insertion by the key
KeyLess(a, b) == a.page < b.page \/ (a.page = b.page /\ a.level < b.level)

RECURSIVE InsertByKey(_, _)
InsertByKey(sorted, e) ==
    IF sorted = <<>> THEN <<e>>
    ELSE IF KeyLess(e, Head(sorted)) THEN <<e>> \o sorted
    ELSE <<Head(sorted)>> \o InsertByKey(Tail(sorted), e)

RECURSIVE SortByPageLevel(_)
SortByPageLevel(es) ==
    IF es = <<>> THEN <<>>
    ELSE InsertByKey(SortByPageLevel(SubSeq(es, 1, Len(es) - 1)), es[Len(es)])

(***************************************************************************)
(* toc_extraction.py: the dotted-leader grammar                            *)
(***************************************************************************)
Sp == Chr(SpaceChars)
Dg == Chr(DigitChars)
\* [\.…·\-_\s] over ASCII
LeaderChars == {".", "-", "_"} \cup SpaceChars

\* \s*[\.…·\-_\s]{3,}\s*(\d+)\s*$ with the page in group g
LeaderTail(g) ==
    <<Star(Sp), Rep(Chr(LeaderChars), 3, -1, FALSE), Star(Sp), Grp(g, Plus(Dg)), Star(Sp), Eol>>

LazyTitle(g) == Grp(g, Rep(AnyChar, 1, -1, TRUE))
Dot == Chr({"."})

ChapterLeaderRe ==
    Cat(<<Bol, Grp(1, Alt(<<Lit(<<"C", "h", "a", "p", "t", "e", "r">>),
                            Lit(<<"C", "H", "A", "P", "T", "E", "R">>)>>)),
           Plus(Sp), Grp(2, Plus(Dg)), Plus(Chr({":"} \cup SpaceChars)), LazyTitle(3)>>
        \o LeaderTail(4))

PartLeaderRe ==
    Cat(<<Bol, Grp(1, Alt(<<Lit(<<"P", "a", "r", "t">>), Lit(<<"P", "A", "R", "T">>)>>)),
           Plus(Sp), Grp(2, Plus(Chr({"I", "V", "X"} \cup DigitChars))),
           Plus(Chr({":"} \cup SpaceChars)), LazyTitle(3)>>
        \o LeaderTail(4))

SubsubLeaderRe ==
    Cat(<<Bol, Grp(1, Cat(<<Plus(Dg), Dot, Plus(Dg), Dot, Plus(Dg)>>)), Plus(Sp), LazyTitle(2)>>
        \o LeaderTail(3))

SubLeaderRe ==
    Cat(<<Bol, Grp(1, Cat(<<Plus(Dg), Dot, Plus(Dg)>>)), Plus(Sp), LazyTitle(2)>>
        \o LeaderTail(3))

NumberedLeaderRe ==
    Cat(<<Bol, Grp(1, Plus(Dg)), Chr({".", ")"}), Plus(Sp), LazyTitle(2)>>
        \o LeaderTail(3))

DottedPatterns ==
    <<[re |-> ChapterLeaderRe, ptype |-> "chapter"],
      [re |-> PartLeaderRe, ptype |-> "part"],
      [re |-> SubsubLeaderRe, ptype |-> "subsub"],
      [re |-> SubLeaderRe, ptype |-> "sub"],
      [re |-> NumberedLeaderRe, ptype |-> "numbered"]>>

\* the entry built from one match (a tuple of groups) of a pattern
DottedEntry(ptype, m) ==
    IF ptype \in {"chapter", "part"}
    THEN TocEntry(IF ptype = "part" THEN 1 ELSE 2,
                  m[1] \o <<" ">> \o m[2] \o <<":", " ">> \o Strip(m[3]), ParseInt(m[4]))
    ELSE IF ptype = "subsub"
    THEN TocEntry(4, m[1] \o <<" ">> \o Strip(m[2]), ParseInt(m[3]))
    ELSE IF ptype = "sub"
    THEN TocEntry(3, m[1] \o <<" ">> \o Strip(m[2]), ParseInt(m[3]))
    ELSE TocEntry(2, m[1] \o <<".", " ">> \o Strip(m[2]), ParseInt(m[3]))

\* the body of the loop for one match: acc = [seen, entries] with the entry
\* e recorded, unless its key was seen or its page is out of range
DottedKeep(acc, e, total_pages) ==
    IF DedupKey(e) \in acc.seen \/ e.page < 1 \/ e.page > total_pages + 50
    THEN acc
    ELSE [seen |-> acc.seen \cup {DedupKey(e)}, entries |-> Append(acc.entries, e)]

\* the loop over one pattern's matches
RECURSIVE DottedMatches(_, _, _, _)
DottedMatches(ms, ptype, total_pages, acc) ==
    IF ms = <<>> THEN acc
    ELSE DottedMatches(Tail(ms), ptype, total_pages,
                       DottedKeep(acc, DottedEntry(ptype, Head(ms)), total_pages))

RECURSIVE DottedLoop(_, _, _, _)
DottedLoop(patterns, toc_text, total_pages, acc) ==
    IF patterns = <<>> THEN acc
    ELSE DottedLoop(Tail(patterns), toc_text, total_pages,
                    DottedMatches(FindAllGroups(Head(patterns).re, toc_text, MultiLine),
                                  Head(patterns).ptype, total_pages, acc))

_extract_dotted_leader_format(toc_text, total_pages) ==
    DottedLoop(DottedPatterns, toc_text, total_pages, [seen |-> {}, entries |-> <<>>]).entries

(***************************************************************************)
(* toc_extraction.py: the line-by-line grammar                             *)
(***************************************************************************)
\* ^\d+$
DigitsRe == Cat(<<Bol, Plus(Dg), Eol>>)
\* ^[IVXivx]+$
RomanTitleRe == Cat(<<Bol, Plus(Chr({"I", "V", "X", "i", "v", "x"})), Eol>>)
\* ^([IVX]+)$, matched with re.IGNORECASE
PartRe == Cat(<<Bol, Grp(1, Plus(Chr({"I", "V", "X"}))), Eol>>)
\* ^[A-Z][A-Za-z\s,\-:]+$
TitlePageRe ==
    Cat(<<Bol, Chr(UpperChars), Plus(Chr(AlphaChars \cup SpaceChars \cup {",", "-", ":"})), Eol>>)
\* ^(\d+(?:\.\d+)+)$
SubsecRe == Cat(<<Bol, Grp(1, Cat(<<Plus(Dg), Plus(Cat(<<Dot, Plus(Dg)>>))>>)), Eol>>)

\* skip_patterns
skip_patterns ==
    <<Cat(<<Bol, Lit(<<"c", "o", "n", "t", "e", "n", "t">>), Opt(Chr({"s"})), Eol>>),
      Cat(<<Bol, Lit(<<"t", "a", "b", "l", "e", " ", "o", "f", " ",
                       "c", "o", "n", "t", "e", "n", "t", "s">>), Eol>>),
      Cat(<<Bol, Plus(Chr(WordChars)), Plus(Sp), Plus(Dg), Chr({","}), Plus(Sp),
            Rep(Dg, 4, 4, FALSE), Eol>>),
      Cat(<<Bol, Plus(Chr({"i", "v", "x", "l", "c"})), Eol>>)>>

\* the patterns the scan applies: skip_patterns[:3]
AppliedSkipCount == 3

\* the scan applying the first two patterns of skip_patterns only
IsNoiseLineOfTwo(line) ==
    \E k \in 1..2 : ReMatch(skip_patterns[k], line, IgnoreCase).ok

\* the scan applying every pattern of skip_patterns, not only the first three
IsNoiseLineOfAll(line) ==
    \E k \in DOMAIN skip_patterns : ReMatch(skip_patterns[k], line, IgnoreCase).ok

IsNoiseLine(line) ==
    \E k \in 1..AppliedSkipCount : ReMatch(skip_patterns[k], line, IgnoreCase).ok

\* roman_map: the numeral at position k stands for k
roman_map ==
    <<<<"i">>, <<"i", "i">>, <<"i", "i", "i">>, <<"i", "v">>, <<"v">>,
      <<"v", "i">>, <<"v", "i", "i">>, <<"v", "i", "i", "i">>, <<"i", "x">>, <<"x">>,
      <<"x", "i">>, <<"x", "i", "i">>, <<"x", "i", "i", "i">>, <<"x", "i", "v">>, <<"x", "v">>,
      <<"x", "v", "i">>, <<"x", "v", "i", "i">>, <<"x", "v", "i", "i", "i">>,
      <<"x", "i", "x">>, <<"x", "x">>>>

\* the value standing for None where a page number is expected
NoPage == 0

\* the page number of s, stripped and in lower case
PageNumberOf(s, total_pages) ==
    IF ReMatch(DigitsRe, s, PlainFlags).ok
    THEN IF 1 <= ParseInt(s) /\ ParseInt(s) <= total_pages + 50 THEN ParseInt(s) ELSE NoPage
    ELSE IF \E k \in DOMAIN roman_map : roman_map[k] = s
    THEN CHOOSE k \in DOMAIN roman_map : roman_map[k] = s
    ELSE NoPage

_parse_page_number(s, total_pages) == PageNumberOf(StrLower(Strip(s)), total_pages)

\* a parsed entry that takes one line more than its shape has
ParsedOneOn(entry, next) == [ok |-> TRUE, entry |-> entry, next |-> next + 1]

\* None, and a parsed (entry, next index)
NoEntry == [ok |-> FALSE]
Parsed(entry, next) == [ok |-> TRUE, entry |-> entry, next |-> next]

\* The four patterns in the order the source tries them.  line is
\* lines[idx] of the source, which is lines[idx + 1] here where lines is
\* indexed from 1, and title_line the line after it; there are lines up to
\* idx + 2 if three holds.  title_number and title_roman tell whether
\* title_line is a number or a roman numeral, page3 and page2 are the page
\* numbers parsed from lines[idx + 2] and lines[idx + 1].
TocEntryAt(lines, idx, line, title_line, three, title_number, title_roman, page3, page2, part_match, subsec_match) ==
    IF /\ ReMatch(DigitsRe, line, PlainFlags).ok /\ three
       /\ ~title_number /\ ~title_roman /\ page3 # NoPage
    THEN Parsed(TocEntry(2, line \o <<".", " ">> \o title_line, page3), idx + 3)
    ELSE IF /\ part_match.ok /\ three
            /\ ~title_number /\ ~title_roman /\ page3 # NoPage
    THEN Parsed(TocEntry(1, <<"P", "a", "r", "t", " ">> \o StrUpper(part_match.caps[1])
                            \o <<":", " ">> \o title_line, page3), idx + 3)
    ELSE IF /\ ReMatch(TitlePageRe, line, PlainFlags).ok /\ idx + 1 < Len(lines)
            /\ page2 # NoPage
    THEN Parsed(TocEntry(2, line, page2), idx + 2)
    ELSE IF /\ subsec_match.ok /\ three
            /\ ~title_number /\ page3 # NoPage
    THEN Parsed(TocEntry(CountChar(subsec_match.caps[1], ".") + 2,
                         subsec_match.caps[1] \o <<" ">> \o title_line, page3), idx + 3)
    ELSE NoEntry

_try_parse_toc_entry(lines, idx, total_pages) ==
    IF idx >= Len(lines) THEN NoEntry
    ELSE TocEntryAt(lines, idx, lines[idx + 1], lines[idx + 2], idx + 2 < Len(lines),
                    ReMatch(DigitsRe, lines[idx + 2], PlainFlags).ok,
                    ReMatch(RomanTitleRe, lines[idx + 2], PlainFlags).ok,
                    _parse_page_number(lines[idx + 3], total_pages),
                    _parse_page_number(lines[idx + 2], total_pages),
                    ReMatch(PartRe, lines[idx + 1], IgnoreCase),
                    ReMatch(SubsecRe, lines[idx + 1], PlainFlags))

\* [line.strip() for line in toc_text.split("\n") if line.strip()]
RECURSIVE StripNonEmpty(_)
StripNonEmpty(raw) ==
    IF raw = <<>> THEN <<>>
    ELSE IF Strip(Head(raw)) = <<>> THEN StripNonEmpty(Tail(raw))
    ELSE <<Strip(Head(raw))>> \o StripNonEmpty(Tail(raw))

\* the while loop: i is the source's index, toc_entries the list so far
RECURSIVE LineScan(_, _, _, _)

\* the loop after the attempt entry at index i
LineScanAfter(lines, i, total_pages, toc_entries, entry) ==
    IF entry.ok
    THEN LineScan(lines, entry.next, total_pages, Append(toc_entries, entry.entry))
    ELSE LineScan(lines, i + 1, total_pages, toc_entries)

LineScan(lines, i, total_pages, toc_entries) ==
    IF i >= Len(lines) THEN toc_entries
    ELSE IF IsNoiseLine(lines[i + 1]) THEN LineScan(lines, i + 1, total_pages, toc_entries)
    ELSE LineScanAfter(lines, i, total_pages, toc_entries,
                       _try_parse_toc_entry(lines, i, total_pages))

\* the deduplication loop: the first entry of each (title.lower(), page) is kept
RECURSIVE UniqueEntries(_, _)
UniqueEntries(toc_entries, seen) ==
    IF toc_entries = <<>> THEN <<>>
    ELSE LET key == DedupKey(Head(toc_entries))
         IN  IF key \in seen THEN UniqueEntries(Tail(toc_entries), seen)
             ELSE <<Head(toc_entries)>> \o UniqueEntries(Tail(toc_entries), seen \cup {key})

_extract_line_by_line_format(toc_text, total_pages) ==
    UniqueEntries(LineScan(StripNonEmpty(Split(toc_text, "\n")), 0, total_pages, <<>>), {})

(***************************************************************************)
(* A document (fitz.Document): the text of its pages and its outline, the  *)
(* list of [level, title, page] that get_toc reads and set_toc replaces.   *)
(***************************************************************************)
Document(pages, toc) == [pages |-> pages, toc |-> toc]
PageCount(doc) == Len(doc.pages)
Min2(a, b) == IF a <= b THEN a ELSE b

(***************************************************************************)
(* toc_extraction.py: extract_toc_from_text                                *)
(***************************************************************************)
\* toc_indicators, over ASCII
toc_indicators ==
    {<<"c", "o", "n", "t", "e", "n", "t", "s">>,
     <<"t", "a", "b", "l", "e", " ", "o", "f", " ", "c", "o", "n", "t", "e", "n", "t", "s">>,
     <<"i", "n", "h", "a", "l", "t", "s", "v", "e", "r", "z", "e", "i", "c", "h", "n", "i", "s">>,
     <<"s", "o", "m", "m", "a", "i", "r", "e">>}

\* lines of the page that are a bare number
NumberLines(text) ==
    LET lines == Split(Strip(text), "\n")
    IN  Cardinality({k \in DOMAIN lines : ReMatch(DigitsRe, Strip(lines[k]), PlainFlags).ok})

\* the number of bare-number lines that makes a page a ToC page
MinNumberLines == 5

IsTocPage(text) ==
    \/ \E indicator \in toc_indicators : Contains(StrLower(text), indicator)
    \/ NumberLines(text) >= MinNumberLines

\* how many leading pages are searched for a table of contents
PagesToSearch == 15

\* toc_pages: the texts of the ToC pages among the first pages, in order
RECURSIVE TocPageTexts(_, _)
TocPageTexts(doc, upto) ==
    IF upto = 0 THEN <<>>
    ELSE TocPageTexts(doc, upto - 1)
         \o (IF IsTocPage(doc.pages[upto]) THEN <<doc.pages[upto]>> ELSE <<>>)

\* One run of extract_toc_from_text, with what it did: found tells whether
\* ToC pages were detected, dotted is what a grammar-1 run returned,
\* line_ran tells whether grammar 2 was run, entries is the returned list.
TocFromGrammars(toc_text, total_pages, dotted) ==
    [found |-> TRUE, toc_text |-> toc_text, dotted_ran |-> TRUE, dotted |-> dotted,
     line_ran |-> dotted = <<>>,
     entries |-> SortByPageLevel(IF dotted = <<>>
                                 THEN _extract_line_by_line_format(toc_text, total_pages)
                                 ELSE dotted)]

TocFromText(toc_text, total_pages) ==
    TocFromGrammars(toc_text, total_pages, _extract_dotted_leader_format(toc_text, total_pages))

TocFromPages(toc_pages, total_pages) ==
    IF toc_pages = <<>>
    THEN [found |-> FALSE, toc_text |-> <<>>, dotted_ran |-> FALSE, dotted |-> <<>>,
          line_ran |-> FALSE, entries |-> <<>>]
    ELSE TocFromText(Join(toc_pages, <<"\n">>), total_pages)

TocExtraction(doc) ==
    TocFromPages(TocPageTexts(doc, Min2(PagesToSearch, PageCount(doc))), PageCount(doc))

extract_toc_from_text(doc) == TocExtraction(doc).entries

(***************************************************************************)
(* Python floats.  Every score is a sum of multiples of 0.05, so a double  *)
(* x is kept exactly as [n, d] with x = n/20 + d/(5 * 2^56): n/20 is the   *)
(* decimal value and d the deviation of the binary value from it.  Sums    *)
(* are exact on [n, d] and then rounded to the nearest double, ties to     *)
(* even, as IEEE 754 addition does.                                        *)
(***************************************************************************)
Float(n, d) == [n |-> n, d |-> d]

\* the doubles of the literals of section_headers.py
F_0_0 == Float(0, 0)
F_0_1 == Float(2, 2)
F_0_15 == Float(3, -2)
F_0_2 == Float(4, 4)
F_0_3 == Float(6, -4)
F_0_35 == Float(7, -8)
F_0_4 == Float(8, 8)
F_0_5 == Float(10, 0)
F_1_0 == Float(20, 0)

FNeg(x) == Float(-x.n, -x.d)
FIsNeg(x) == x.n < 0 \/ (x.n = 0 /\ x.d < 0)
FGe(x, y) == x.n > y.n \/ (x.n = y.n /\ x.d >= y.d)

\* The spacing of the doubles around a >= 0, as K = 2^56 * ulp (0 where every
\* multiple of 2^-56 is a double), with P = (1/(4 ulp)) mod 5.
FGrid(a) ==
    IF a.n > 40 \/ (a.n = 40 /\ a.d >= 0) THEN [K |-> 32, P |-> 2]
    ELSE IF a.n > 20 \/ (a.n = 20 /\ a.d >= 0) THEN [K |-> 16, P |-> 4]
    ELSE IF a.n > 10 \/ (a.n = 10 /\ a.d >= 0) THEN [K |-> 8, P |-> 3]
    ELSE IF a.n > 5 \/ (a.n = 5 /\ a.d >= 0) THEN [K |-> 4, P |-> 1]
    ELSE IF a.n >= 3 THEN [K |-> 2, P |-> 2]
    ELSE IF a.n >= 2 THEN [K |-> 1, P |-> 4]
    ELSE [K |-> 0, P |-> 0]

\* a >= 0 rounded to the nearest double, ties to the even one
FRoundOn(a, grid) ==
    LET M == 5 * grid.K
        r == (a.n * grid.P) % 5
        g == (r * grid.K + a.d) % M
        base == (r * grid.K + a.d - g) \div M
        up == 2 * g > M \/ (2 * g = M /\ (r + base) % 2 = 1)
    IN  IF grid.K = 0 THEN a
        ELSE Float(a.n, a.d - g + (IF up THEN M ELSE 0))

FRoundAbs(a) == FRoundOn(a, FGrid(a))

\* |x|, and a with the sign of x
FAbs(x) == IF FIsNeg(x) THEN FNeg(x) ELSE x
FSigned(a, x) == IF FIsNeg(x) THEN FNeg(a) ELSE a

FRound(x) == FSigned(FRoundAbs(FAbs(x)), x)

FAdd(x, y) == FRound(Float(x.n + y.n, x.d + y.d))
FSub(x, y) == FAdd(x, FNeg(y))
\* k * x for an int k
FMulInt(k, x) == FRound(Float(k * x.n, k * x.d))
FMin(x, y) == IF FGe(x, y) THEN y ELSE x
FMax(x, y) == IF FGe(x, y) THEN x ELSE y

(***************************************************************************)
(* section_headers.py.  The two word lists are read from data files at     *)
(* first use; here they are arguments: vocabulary and starters.            *)
(***************************************************************************)
RestOfLine(g) == Grp(g, Plus(AnyChar))

\* ^(Chapter|CHAPTER)\s+(\d+)[:\s]+(.+)$, matched with re.IGNORECASE
ChapterLineRe ==
    Cat(<<Bol, Grp(1, Alt(<<Lit(<<"C", "h", "a", "p", "t", "e", "r">>),
                            Lit(<<"C", "H", "A", "P", "T", "E", "R">>)>>)),
          Plus(Sp), Grp(2, Plus(Dg)), Plus(Chr({":"} \cup SpaceChars)), RestOfLine(3), Eol>>)
\* ^(\d+\.\d+\.\d+)\s+(.+)$
SubsubLineRe ==
    Cat(<<Bol, Grp(1, Cat(<<Plus(Dg), Dot, Plus(Dg), Dot, Plus(Dg)>>)), Plus(Sp),
          RestOfLine(2), Eol>>)
\* ^(\d+\.\d+)\s+(.+)$
SubLineRe == Cat(<<Bol, Grp(1, Cat(<<Plus(Dg), Dot, Plus(Dg)>>)), Plus(Sp), RestOfLine(2), Eol>>)
\* ^(\d{1,2})\.?\s+(.+)$
SecLineRe == Cat(<<Bol, Grp(1, Rep(Dg, 1, 2, FALSE)), Opt(Dot), Plus(Sp), RestOfLine(2), Eol>>)

\* the largest number of a main section
MaxSectionNumber == 20

\* the same with a chapter title of 2 characters accepted
SectionEntryOfTwo(page_num, chapter_match, subsubsec_match, subsec_match, sec_match) ==
    IF chapter_match.ok /\ Len(Strip(chapter_match.caps[3])) >= 2
    THEN Parsed(TocEntry(1, <<"C", "h", "a", "p", "t", "e", "r", " ">> \o chapter_match.caps[2]
                            \o <<":", " ">> \o Strip(chapter_match.caps[3]), page_num), 0)
    ELSE IF subsubsec_match.ok /\ Len(Strip(subsubsec_match.caps[2])) >= 3
    THEN Parsed(TocEntry(4, subsubsec_match.caps[1] \o <<" ">>
                            \o Strip(subsubsec_match.caps[2]), page_num), 0)
    ELSE IF subsec_match.ok /\ Len(Strip(subsec_match.caps[2])) >= 3
    THEN Parsed(TocEntry(3, subsec_match.caps[1] \o <<" ">>
                            \o Strip(subsec_match.caps[2]), page_num), 0)
    ELSE IF /\ sec_match.ok /\ Len(Strip(sec_match.caps[2])) >= 3
            /\ ParseInt(sec_match.caps[1]) <= MaxSectionNumber
    THEN Parsed(TocEntry(2, sec_match.caps[1] \o <<".", " ">>
                            \o Strip(sec_match.caps[2]), page_num), 0)
    ELSE NoEntry

\* the entry of the first of the four patterns that matches the line
SectionEntry(page_num, chapter_match, subsubsec_match, subsec_match, sec_match) ==
    IF chapter_match.ok /\ Len(Strip(chapter_match.caps[3])) > 2
    THEN Parsed(TocEntry(1, <<"C", "h", "a", "p", "t", "e", "r", " ">> \o chapter_match.caps[2]
                            \o <<":", " ">> \o Strip(chapter_match.caps[3]), page_num), 0)
    ELSE IF subsubsec_match.ok /\ Len(Strip(subsubsec_match.caps[2])) >= 3
    THEN Parsed(TocEntry(4, subsubsec_match.caps[1] \o <<" ">>
                            \o Strip(subsubsec_match.caps[2]), page_num), 0)
    ELSE IF subsec_match.ok /\ Len(Strip(subsec_match.caps[2])) >= 3
    THEN Parsed(TocEntry(3, subsec_match.caps[1] \o <<" ">>
                            \o Strip(subsec_match.caps[2]), page_num), 0)
    ELSE IF /\ sec_match.ok /\ Len(Strip(sec_match.caps[2])) >= 3
            /\ ParseInt(sec_match.caps[1]) <= MaxSectionNumber
    THEN Parsed(TocEntry(2, sec_match.caps[1] \o <<".", " ">>
                            \o Strip(sec_match.caps[2]), page_num), 0)
    ELSE NoEntry

_try_match_section_pattern(line, page_num) ==
    SectionEntry(page_num, ReMatch(ChapterLineRe, line, IgnoreCase),
                 ReMatch(SubsubLineRe, line, PlainFlags),
                 ReMatch(SubLineRe, line, PlainFlags),
                 ReMatch(SecLineRe, line, PlainFlags))

\* ^\d+\.?\s*, the numbering re.sub removes from the title
LeadingNumberRe == Cat(<<Bol, Plus(Dg), Opt(Dot), Star(Sp)>>)
\* ^\d+\.\s+[A-Z][a-z]*\s*,
CitationRe ==
    Cat(<<Bol, Plus(Dg), Dot, Plus(Sp), Chr(UpperChars), Star(Chr(LowerChars)), Star(Sp),
          Chr({","})>>)
\* ^\d+\.\s+[A-Z]\.\s+[A-Z]
AuthorRe ==
    Cat(<<Bol, Plus(Dg), Dot, Plus(Sp), Chr(UpperChars), Dot, Plus(Sp), Chr(UpperChars)>>)
\* ACM|IEEE|Springer|\d{4}[-/]\d{2,4}, over ASCII
PublisherRe ==
    Alt(<<Lit(<<"A", "C", "M">>), Lit(<<"I", "E", "E", "E">>),
          Lit(<<"S", "p", "r", "i", "n", "g", "e", "r">>),
          Cat(<<Rep(Dg, 4, 4, FALSE), Chr({"-", "/"}), Rep(Dg, 2, 4, FALSE)>>)>>)
\* ^(\d+)\.
SecNumRe == Cat(<<Bol, Grp(1, Plus(Dg)), Dot>>)

\* the words that need no capital in a title-cased title
SmallWords ==
    {<<"a">>, <<"a", "n">>, <<"t", "h", "e">>, <<"o", "f">>, <<"a", "n", "d">>, <<"i", "n">>,
     <<"o", "n">>, <<"f", "o", "r">>, <<"t", "o">>, <<"w", "i", "t", "h">>}

\* no penalty applied: the score is left as it is
ScoreKept(cond, score, delta) == score

\* score + delta if cond, else score
AddIf(cond, score, delta) == IF cond THEN FAdd(score, delta) ELSE score
SubIf(cond, score, delta) == IF cond THEN FSub(score, delta) ELSE score

\* a title read as having no words
NoTitleWords(title) == {}

\* set(w.lower() for w in re.findall(r"[a-zA-Z]+", title))
TitleWords(title) ==
    {StrLower(w) : w \in Range(FindAllText(Plus(Chr(AlphaChars)), title, PlainFlags))}

\* re.sub(r"^\d+\.?\s*", "", title).strip(), numbering being the match to remove
TitlePart(title, numbering) ==
    Strip(IF numbering.ok THEN SubSeq(title, numbering.end, Len(title)) ELSE title)

\* the score, from the boosts and the penalties in the order of the source
ScoreFrom(line, academic_matches, title_part, words, sec_num_match, starters) ==
    LET word_count == Len(words)
        all_caps == IsUpperStr(title_part) /\ Len(title_part) > 3
        title_case == /\ ~all_caps
                      /\ title_part # <<>> /\ title_part[1] \in UpperChars
                      /\ Len(words) >= 1
                      /\ \A k \in DOMAIN words :
                            words[k][1] \in UpperChars \/ StrLower(words[k]) \in SmallWords
        first_word == IF title_part # <<>> THEN StrLower(words[1]) ELSE <<>>
        sec_num == ParseInt(sec_num_match.caps[1])
        s1 == AddIf(academic_matches # {}, F_0_35,
                    FMin(F_0_35, FMulInt(Cardinality(academic_matches), F_0_15)))
        s2 == AddIf(title_case, AddIf(all_caps, s1, F_0_2), F_0_1)
        s3 == SubIf(EndsWithAny(title_part, {".", ",", ";"}), s2, F_0_2)
        s4 == SubIf(word_count = 1 /\ academic_matches = {}, s3, F_0_15)
        s5 == SubIf(word_count > 10, s4, F_0_2)
        s6 == SubIf(ReMatch(CitationRe, line, PlainFlags).ok, s5, F_0_5)
        s7 == SubIf(first_word \in starters, s6, F_0_3)
        s8 == SubIf(ReMatch(AuthorRe, line, PlainFlags).ok, s7, F_0_5)
        s9 == SubIf(ReSearch(PublisherRe, line, PlainFlags), s8, F_0_5)
        s10 == SubIf(sec_num_match.ok /\ sec_num > 15, s9, F_0_3)
        s11 == SubIf(sec_num_match.ok /\ sec_num = 0, s10, F_0_3)
    IN  FMax(F_0_0, FMin(F_1_0, s11))

ScoreOfTitle(line, title, title_part, vocabulary, starters) ==
    ScoreFrom(line, TitleWords(title) \cap vocabulary, title_part, SplitWords(title_part),
              ReMatch(SecNumRe, title, PlainFlags), starters)

\* the score of a line that matched a section pattern with the entry
ScoreOfEntry(line, entry, vocabulary, starters) ==
    ScoreOfTitle(line, entry.title,
                 TitlePart(entry.title, ReMatch(LeadingNumberRe, entry.title, PlainFlags)),
                 vocabulary, starters)

\* (score, entry) for the entry matched: [score, ok, entry], ok = FALSE
\* standing for entry = None
ScoredEntry(line, entry, vocabulary, starters) ==
    IF Len(line) < 3 \/ Len(line) > 80 \/ ~entry.ok
    THEN [score |-> F_0_0, ok |-> FALSE]
    ELSE [score |-> ScoreOfEntry(line, entry.entry, vocabulary, starters),
          ok |-> TRUE, entry |-> entry.entry]

_score_section_header(line, page_num, vocabulary, starters) ==
    ScoredEntry(line, _try_match_section_pattern(line, page_num), vocabulary, starters)

\* ^\d+(\.\d+)*$
BareNumberRe == Cat(<<Bol, Plus(Dg), Star(Cat(<<Dot, Plus(Dg)>>)), Eol>>)
\* ^[A-Z][A-Za-z]
CapitalStartRe == Cat(<<Bol, Chr(UpperChars), Chr(AlphaChars)>>)

\* the score from which a candidate is accepted
AcceptThreshold == F_0_4

\* [line.strip() for line in text.split("\n")]
StripAll(raw) == [k \in DOMAIN raw |-> Strip(raw[k])]

\* The while loop over the lines of one page; i is the source's index and
\* acc = [seen, entries].  lines[i] of the source is lines[i + 1] here.
RECURSIVE HeaderScan(_, _, _, _, _, _)

\* the end of the loop body: scored is (score, entry), combine tells whether
\* it is the score of the line combined with the next one
HeaderAccept(lines, i, page_idx, acc, vocabulary, starters, scored, combine) ==
    IF scored.ok /\ FGe(scored.score, AcceptThreshold)
    THEN HeaderScan(lines, IF combine THEN i + 2 ELSE i + 1, page_idx,
                    IF DedupKey(scored.entry) \in acc.seen THEN acc
                    ELSE [seen |-> acc.seen \cup {DedupKey(scored.entry)},
                          entries |-> Append(acc.entries, scored.entry)],
                    vocabulary, starters)
    ELSE HeaderScan(lines, i + 1, page_idx, acc, vocabulary, starters)

\* the loop body from the first score on: alone is the score of the line,
\* bare tells whether the line is a bare number followed by a short line
HeaderCombine(lines, i, page_idx, acc, vocabulary, starters, alone, bare) ==
    LET is_header_footer_position == i < 3 \/ i >= Len(lines) - 3
        matches_page_num == ParseInt(Split(lines[i + 1], ".")[1]) = page_idx + 1
    IN  IF bare /\ is_header_footer_position /\ matches_page_num
        THEN HeaderScan(lines, i + 1, page_idx, acc, vocabulary, starters)
        ELSE IF bare /\ ReMatch(CapitalStartRe, lines[i + 2], PlainFlags).ok
        THEN HeaderAccept(lines, i, page_idx, acc, vocabulary, starters,
                          _score_section_header(lines[i + 1] \o <<" ">> \o lines[i + 2],
                                                page_idx + 1, vocabulary, starters),
                          TRUE)
        ELSE HeaderAccept(lines, i, page_idx, acc, vocabulary, starters, alone, FALSE)

HeaderScored(lines, i, page_idx, acc, vocabulary, starters, alone) ==
    HeaderCombine(lines, i, page_idx, acc, vocabulary, starters, alone,
                  /\ ~alone.ok /\ i + 1 < Len(lines)
                  /\ lines[i + 2] # <<>> /\ Len(lines[i + 2]) < 80
                  /\ ReMatch(BareNumberRe, lines[i + 1], PlainFlags).ok)

HeaderScan(lines, i, page_idx, acc, vocabulary, starters) ==
    IF i >= Len(lines) THEN acc
    ELSE IF lines[i + 1] = <<>> \/ Len(lines[i + 1]) > 100
    THEN HeaderScan(lines, i + 1, page_idx, acc, vocabulary, starters)
    ELSE HeaderScored(lines, i, page_idx, acc, vocabulary, starters,
                      _score_section_header(lines[i + 1], page_idx + 1, vocabulary, starters))

\* One iteration of the same loop, as the steps of a scan take it.
\* Whether the line at i is a bare number that may be combined with the
\* next line: not entry, a next line that is not empty and short
CombineCandidate(lines, i, alone) ==
    /\ ~alone.ok /\ i + 1 < Len(lines)
    /\ lines[i + 2] # <<>> /\ Len(lines[i + 2]) < 80
    /\ ReMatch(BareNumberRe, lines[i + 1], PlainFlags).ok

\* no bare number is taken for a page number
never_page_number(lines, i, page_idx) == FALSE

\* is_likely_page_number, for a bare number at i
is_likely_page_number(lines, i, page_idx) ==
    /\ i < 3 \/ i >= Len(lines) - 3
    /\ ParseInt(Split(lines[i + 1], ".")[1]) = page_idx + 1

\* what an iteration at i does, and the (score, entry) it ends with
IterationAt(lines, i, page_idx, vocabulary, starters, alone) ==
    IF lines[i + 1] = <<>> \/ Len(lines[i + 1]) > 100 THEN [kind |-> "skipped", scored |-> NoEntry]
    ELSE IF CombineCandidate(lines, i, alone) /\ is_likely_page_number(lines, i, page_idx)
    THEN [kind |-> "page number", scored |-> NoEntry]
    ELSE IF CombineCandidate(lines, i, alone) /\ ReMatch(CapitalStartRe, lines[i + 2], PlainFlags).ok
    THEN [kind |-> "combined",
          scored |-> _score_section_header(lines[i + 1] \o <<" ">> \o lines[i + 2],
                                           page_idx + 1, vocabulary, starters)]
    ELSE [kind |-> "alone", scored |-> alone]

\* the score is that of an entry and reaches the threshold
Acceptable(scored) == scored.ok /\ FGe(scored.score, AcceptThreshold)

\* the loop over the pages, page_idx from 0
RECURSIVE HeaderPages(_, _, _, _, _)
HeaderPages(doc, page_idx, acc, vocabulary, starters) ==
    IF page_idx >= PageCount(doc) THEN acc
    ELSE HeaderPages(doc, page_idx + 1,
                     HeaderScan(StripAll(Split(doc.pages[page_idx + 1], "\n")), 0, page_idx,
                                acc, vocabulary, starters),
                     vocabulary, starters)

extract_section_headers(doc, vocabulary, starters) ==
    SortByPageLevel(HeaderPages(doc, 0, [seen |-> {}, entries |-> <<>>],
                                vocabulary, starters).entries)

(***************************************************************************)
(* bookmarks.py                                                            *)
(***************************************************************************)
\* the outline of the document as a TocEntry list
get_existing_bookmarks(doc) ==
    [k \in DOMAIN doc.toc |-> TocEntry(doc.toc[k].level, doc.toc[k].title, doc.toc[k].page)]

\* the loop over shifted without its cap: every level is kept as it is
LevelsKept(shifted, prev_level) == shifted

\* the loop over shifted: no level exceeds the previous new level by more than 1
RECURSIVE NoLevelSkips(_, _)
NoLevelSkips(shifted, prev_level) ==
    IF shifted = <<>> THEN <<>>
    ELSE LET entry == Head(shifted)
             new_level == IF entry.level > prev_level + 1 THEN prev_level + 1 ELSE entry.level
         IN  <<TocEntry(new_level, entry.title, entry.page)>>
             \o NoLevelSkips(Tail(shifted), new_level)

\* the loop over the entries as they are, without the shift to level 1
NormalizedUnshifted(toc_entries) == NoLevelSkips(toc_entries, 0)

_normalize_levels(toc_entries) ==
    IF toc_entries = <<>> THEN <<>>
    ELSE LET min_level == SetMin({toc_entries[k].level : k \in DOMAIN toc_entries})
             shifted == [k \in DOMAIN toc_entries |->
                            TocEntry(toc_entries[k].level - min_level + 1,
                                     toc_entries[k].title, toc_entries[k].page)]
         IN  NoLevelSkips(shifted, 0)

\* the pages that name the contents, without the pages around them
HitsAlone(hits, n) == hits

\* the pages excluded from the keyword search, as indices from 0
\* the pages that mention contents, each with the page before it and the
\* two pages after it, among the n pages
AroundHits(hits, n) ==
    hits \cup {i - 1 : i \in {j \in hits : j > 0}}
         \cup {i + 1 : i \in {j \in hits : j + 1 < n}}
         \cup {i + 2 : i \in {j \in hits : j + 2 < n}}

TocPageIndices(doc) ==
    AroundHits({i \in 0..(Min2(PagesToSearch, PageCount(doc)) - 1) :
                   Contains(StrLower(doc.pages[i + 1]),
                            <<"c", "o", "n", "t", "e", "n", "t", "s">>)},
               PageCount(doc))

\* [e for e in es if e.page > above]
RECURSIVE PagesAbove(_, _)
PagesAbove(es, above) ==
    IF es = <<>> THEN <<>>
    ELSE (IF Head(es).page > above THEN <<Head(es)>> ELSE <<>>) \o PagesAbove(Tail(es), above)

\* sorted(es, key=lambda x: x.page): stable
RECURSIVE InsertByPage(_, _)
InsertByPage(sorted, e) ==
    IF sorted = <<>> THEN <<e>>
    ELSE IF e.page < Head(sorted).page THEN <<e>> \o sorted
    ELSE <<Head(sorted)>> \o InsertByPage(Tail(sorted), e)

RECURSIVE SortByPage(_)
SortByPage(es) ==
    IF es = <<>> THEN <<>>
    ELSE InsertByPage(SortByPage(SubSeq(es, 1, Len(es) - 1)), es[Len(es)])

\* es[:n]
Take(es, n) == SubSeq(es, 1, Min2(n, Len(es)))

\* how many entries are tested, and the pages from which an entry is tested
MaxTestEntries == 5
HighPage == 20
LowPage == 5

\* high or low
IfNone(high, low) == IF high # <<>> THEN high ELSE low

TestEntries(toc_entries) ==
    IfNone(Take(SortByPage(PagesAbove(toc_entries, HighPage)), MaxTestEntries),
           Take(PagesAbove(toc_entries, LowPage), MaxTestEntries))

\* range(-20, 30)
MinTestOffset == -20
MaxTestOffset == 29

\* [A-Za-z]{5,}
KeywordRe == Rep(Chr(AlphaChars), 5, -1, FALSE)

\* whether the page at entry.page + test_offset holds the entry's words
OffsetFits(doc, entry, words, test_offset, toc_page_indices) ==
    LET pdf_page_idx == entry.page + test_offset - 1
    IN  /\ pdf_page_idx >= 0 /\ pdf_page_idx < PageCount(doc)
        /\ pdf_page_idx \notin toc_page_indices
        /\ LET text == StrLower(doc.pages[pdf_page_idx + 1])
               matches == Cardinality({k \in DOMAIN words : Contains(text, StrLower(words[k]))})
           IN  matches >= Min2(2, Len(words))

\* the last offset that fits, where the first is meant
LastFit(doc, entry, words, toc_page_indices) ==
    LET fits == {o \in MinTestOffset..MaxTestOffset :
                    OffsetFits(doc, entry, words, o, toc_page_indices)}
    IN  IF Len(words) < 2 \/ fits = {} THEN <<>> ELSE <<SetMax(fits)>>

\* what one test entry appends to offsets: the first offset that fits, if
\* the title has two words to look for and an offset fits
FirstFit(doc, entry, words, toc_page_indices) ==
    LET fits == {o \in MinTestOffset..MaxTestOffset :
                    OffsetFits(doc, entry, words, o, toc_page_indices)}
    IN  IF Len(words) < 2 \/ fits = {} THEN <<>> ELSE <<SetMin(fits)>>

\* offsets, after the loop over the test entries
RECURSIVE RecordedOffsets(_, _, _)
RecordedOffsets(doc, test_entries, toc_page_indices) ==
    IF test_entries = <<>> THEN <<>>
    ELSE FirstFit(doc, Head(test_entries),
                  FindAllText(KeywordRe, Head(test_entries).title, PlainFlags),
                  toc_page_indices)
         \o RecordedOffsets(doc, Tail(test_entries), toc_page_indices)

\* the most frequent offset, the latest recorded on a tie
MostCommonLatest(offsets) ==
    LET count(o) == Cardinality({k \in DOMAIN offsets : offsets[k] = o})
        last(o) == SetMax({k \in DOMAIN offsets : offsets[k] = o})
    IN  CHOOSE o \in Range(offsets) :
            \A q \in Range(offsets) :
                count(o) > count(q) \/ (count(o) = count(q) /\ last(o) >= last(q))

\* Counter(offsets).most_common(1)[0][0]: the most frequent, the earliest on a tie
MostCommon(offsets) ==
    LET count(o) == Cardinality({k \in DOMAIN offsets : offsets[k] = o})
        first(o) == SetMin({k \in DOMAIN offsets : offsets[k] = o})
    IN  CHOOSE o \in Range(offsets) :
            \A q \in Range(offsets) :
                count(o) > count(q) \/ (count(o) = count(q) /\ first(o) <= first(q))

\* the offset returned for the offsets recorded
OffsetOf(offsets) == IF offsets = <<>> THEN 0 ELSE MostCommon(offsets)

_find_page_offset(doc, toc_entries) ==
    IF toc_entries = <<>> THEN 0
    ELSE OffsetOf(RecordedOffsets(doc, TestEntries(toc_entries), TocPageIndices(doc)))

\* TocEntry objects: heap holds the objects there are, a list is a sequence
\* of references into it.  The entries a list of references names:
Deref(heap, refs) == [k \in DOMAIN refs |-> heap[refs[k]]]

\* [TocEntry(level=e.level - min_level + 1, ...) for e in toc_entries]
ShiftedLevels(toc_entries) ==
    [k \in DOMAIN toc_entries |->
        TocEntry(toc_entries[k].level - SetMin({toc_entries[j].level : j \in DOMAIN toc_entries}) + 1,
                 toc_entries[k].title, toc_entries[k].page)]

\* the values assigned to the objects of refs, where they are
StoredInPlace(heap, refs, values) ==
    [heap |-> [o \in DOMAIN heap |->
                  IF \E k \in DOMAIN refs : refs[k] = o
                  THEN values[CHOOSE k \in DOMAIN refs : refs[k] = o] ELSE heap[o]],
     refs |-> refs]

\* TocEntry(...) in a comprehension or appended to result: an object is
\* created for every value, the objects there were are left as they are
StoredNew(heap, refs, values) ==
    [heap |-> heap \o values, refs |-> [k \in DOMAIN values |-> Len(heap) + k]]

\* the list shifted of _normalize_levels, then its list result
ShiftedObjects(heap, refs) == StoredNew(heap, refs, ShiftedLevels(Deref(heap, refs)))
ResultObjects(shifted) ==
    StoredNew(shifted.heap, shifted.refs, NoLevelSkips(Deref(shifted.heap, shifted.refs), 0))

\* _normalize_levels on a list of references: the heap after it, and the
\* list it returns
NormalizedObjects(heap, refs) ==
    IF refs = <<>> THEN [heap |-> heap, refs |-> <<>>]
    ELSE ResultObjects(ShiftedObjects(heap, refs))

\* the bounds checks without the first one: only the last page bounds
ClampHigh(pdf_page, page_count) == IF pdf_page > page_count THEN page_count ELSE pdf_page

\* the bounds checks sending every page out of range to the first page
ClampToFirst(pdf_page, page_count) ==
    IF pdf_page < 1 \/ pdf_page > page_count THEN 1 ELSE pdf_page

\* pdf_page after the two bounds checks of the loop of add_bookmarks
ClampPage(pdf_page, page_count) ==
    LET low == IF pdf_page < 1 THEN 1 ELSE pdf_page
    IN  IF low > page_count THEN page_count ELSE low

\* toc, the list handed to set_toc, from the normalized entries
BuildToc(normalized_entries, page_offset, page_count) ==
    [k \in DOMAIN normalized_entries |->
        TocEntry(normalized_entries[k].level, normalized_entries[k].title,
                 ClampPage(normalized_entries[k].page + page_offset, page_count))]

\* sorted(bookmarks, key=lambda b: (b.page == 1, b.page)): stable
SampleLess(a, b) ==
    \/ (a.page # 1 /\ b.page = 1)
    \/ ((a.page = 1) = (b.page = 1) /\ a.page < b.page)

RECURSIVE InsertForSample(_, _)
InsertForSample(sorted, e) ==
    IF sorted = <<>> THEN <<e>>
    ELSE IF SampleLess(e, Head(sorted)) THEN <<e>> \o sorted
    ELSE <<Head(sorted)>> \o InsertForSample(Tail(sorted), e)

RECURSIVE SortForSample(_)
SortForSample(es) ==
    IF es = <<>> THEN <<>>
    ELSE InsertForSample(SortForSample(SubSeq(es, 1, Len(es) - 1)), es[Len(es)])

\* the sizes the checks of verify_bookmarks compare with
MaxFlatEntries == 3
MinBookmarks == 3
SmallDocPages == 10
MaxSample == 5

\* [A-Za-z]{4,}
TitleKeywordRe == Rep(Chr(AlphaChars), 4, -1, FALSE)

InvalidPage(doc, entry) == entry.page < 1 \/ entry.page > PageCount(doc)

\* whether a sampled entry with a valid page counts as a content mismatch
\* the words found, in lower case
LowerAll(found) == [k \in DOMAIN found |-> StrLower(found[k])]

\* whether fewer than half of the keywords, and not all of them, are in text
FewerThanHalfIn(text, keywords) ==
    LET matches == Cardinality({k \in DOMAIN keywords : Contains(text, keywords[k])})
    IN  keywords # <<>> /\ 2 * matches < Len(keywords) /\ matches < Len(keywords)

\* whether fewer than half of the keywords, and none of them, are in text
TooFewIn(text, keywords) ==
    LET matches == Cardinality({k \in DOMAIN keywords : Contains(text, keywords[k])})
    IN  keywords # <<>> /\ matches < Len(keywords) \div 2 /\ matches < 1

ContentMismatch(doc, entry) ==
    TooFewIn(StrLower(doc.pages[entry.page]),
             LowerAll(FindAllText(TitleKeywordRe, entry.title, PlainFlags)))

\* one issue at most, however many sampled entries have an invalid page
FirstInvalidPage(doc, sample) ==
    IF \E k \in DOMAIN sample : InvalidPage(doc, sample[k]) THEN <<"invalid page">> ELSE <<>>

\* the issues of the sampled entries with an invalid page, in order
RECURSIVE InvalidPageIssues(_, _)
InvalidPageIssues(doc, sample) ==
    IF sample = <<>> THEN <<>>
    ELSE (IF InvalidPage(doc, Head(sample)) THEN <<"invalid page">> ELSE <<>>)
         \o InvalidPageIssues(doc, Tail(sample))

\* check 1 with any shared level in the place of level 1
FlatAtAnyLevel(bookmarks) ==
    /\ Cardinality({bookmarks[k].page : k \in DOMAIN bookmarks}) = 1
    /\ Cardinality({bookmarks[k].level : k \in DOMAIN bookmarks}) = 1
    /\ Len(bookmarks) <= MaxFlatEntries

\* check 1: all_same_page and all_level_1 and len(bookmarks) <= 3
LacksStructure(bookmarks) ==
    LET all_same_page == Cardinality({bookmarks[k].page : k \in DOMAIN bookmarks}) = 1
        all_level_1 == \A k \in DOMAIN bookmarks : bookmarks[k].level = 1
    IN  all_same_page /\ all_level_1 /\ Len(bookmarks) <= MaxFlatEntries

\* check 2 whatever the size of the document
TooFewForAnySize(doc, bookmarks) == Len(bookmarks) < MinBookmarks

\* check 2: len(bookmarks) < 3 and len(doc) > 10
TooFewBookmarks(doc, bookmarks) ==
    Len(bookmarks) < MinBookmarks /\ PageCount(doc) > SmallDocPages

\* (is_valid, issues), an issue being named by its kind
\* issues, after the four checks, for the entries sampled
IssuesOf(doc, bookmarks, sample) ==
    LET content_issues ==
            Cardinality({k \in DOMAIN sample :
                            ~InvalidPage(doc, sample[k]) /\ ContentMismatch(doc, sample[k])})
    IN  (IF LacksStructure(bookmarks) THEN <<"lacks structure">> ELSE <<>>)
        \o (IF TooFewBookmarks(doc, bookmarks) THEN <<"too few bookmarks">> ELSE <<>>)
        \o InvalidPageIssues(doc, sample)
        \o (IF content_issues > Len(sample) \div 2 THEN <<"content mismatch">> ELSE <<>>)

Verdict(issues) == [is_valid |-> issues = <<>>, issues |-> issues]

verify_bookmarks(doc, bookmarks) ==
    IF bookmarks = <<>> THEN [is_valid |-> TRUE, issues |-> <<>>]
    ELSE Verdict(IssuesOf(doc, bookmarks,
                          Take(SortForSample(bookmarks), Min2(MaxSample, Len(bookmarks)))))

(***************************************************************************)
(* ocr.py, and the files process_pdf works on.  A file holds a document    *)
(* and scan, the text printed on each page, which is what OCR recognises.  *)
(***************************************************************************)
Paths == {"source", "tmp", "output"}
NoFile == [exists |-> FALSE, pages |-> <<>>, toc |-> <<>>, scan |-> <<>>]
PdfFile(pages, toc, scan) == [exists |-> TRUE, pages |-> pages, toc |-> toc, scan |-> scan]
\* the file NamedTemporaryFile leaves behind: it exists and is empty
EmptyFile == [exists |-> TRUE, pages |-> <<>>, toc |-> <<>>, scan |-> <<>>]

\* fitz.open(path)
OpenDocument(file) == Document(file.pages, file.toc)

\* how many leading pages are sampled, and the text length to exceed
PagesToCheck == 5
MinTextLength == 100

RECURSIVE TotalText(_, _)
TotalText(doc, upto) ==
    IF upto = 0 THEN 0 ELSE TotalText(doc, upto - 1) + Len(Strip(doc.pages[upto]))

pdf_has_text(doc) == TotalText(doc, Min2(PagesToCheck, PageCount(doc))) > MinTextLength

\* What ocrmypdf --skip-text writes when it succeeds: a page keeps the text
\* it has, a page without text gets the text of its scan.
OcrOutput(file) ==
    PdfFile([k \in DOMAIN file.pages |->
                IF Strip(file.pages[k]) # <<>> THEN file.pages[k] ELSE file.scan[k]],
            file.toc, file.scan)

(***************************************************************************)
(* core.py: process_pdf, which calls its own copies of the functions       *)
(* above (the same code as in ocr.py, toc_extraction.py and bookmarks.py). *)
(***************************************************************************)
\* needs_ocr after the three assignments
\* the two overrides in the other order: force_ocr wins over skip_ocr
NeedsOcrForceLast(has_text, skip_ocr, force_ocr) ==
    IF force_ocr THEN TRUE ELSE IF skip_ocr THEN FALSE ELSE ~has_text

\* needs_ocr: what the classifier says, overridden by force_ocr, then by skip_ocr
NeedsOcr(has_text, skip_ocr, force_ocr) ==
    IF skip_ocr THEN FALSE ELSE IF force_ocr THEN TRUE ELSE ~has_text

\* a document that is never closed
LeftOpen(open, holder) == open

\* finally: doc.close(), in the function holder
Closed(open, holder) == open \ {holder}

NoLocals ==
    [needs_ocr |-> FALSE, tmp_path |-> FALSE, ocr |-> "not run", working_pdf |-> "source",
     doc |-> Document(<<>>, <<>>), toc_entries |-> <<>>, page_offset |-> 0,
     normalized_entries |-> <<>>, toc |-> <<>>]

\* A call that passes mode, as cli.py and the tests do: process_pdf has no
\* such parameter, the call raises TypeError before the body runs.
CallWithMode ==
    /\ pc = "start" /\ input.mode # "none"
    /\ pc' = "raised"
    /\ result' = "TypeError"
    /\ UNCHANGED <<input, files, locals, handles, trace>>

\* A call with the parameters process_pdf has; pdf_has_text opens the source.
CallPlain ==
    /\ pc = "start" /\ input.mode = "none"
    /\ handles' = handles \cup {"pdf_has_text"}
    /\ pc' = "decide_ocr"
    /\ UNCHANGED <<input, result, files, locals, trace>>

\* Step 1: pdf_has_text reads the text and closes the source; then the
\* creation of the temporary file of step 2.
DecideOCR ==
    /\ pc = "decide_ocr"
    /\ LET needs_ocr == NeedsOcr(pdf_has_text(OpenDocument(files["source"])),
                                 input.skip_ocr, input.force_ocr)
       IN  /\ locals' = [locals EXCEPT !.needs_ocr = needs_ocr, !.tmp_path = needs_ocr]
           /\ files' = IF needs_ocr THEN [files EXCEPT !["tmp"] = EmptyFile] ELSE files
           /\ pc' = IF needs_ocr THEN "run_ocr" ELSE "open_working"
    /\ trace' = Append(trace, "DecideOCR")
    /\ handles' = Closed(handles, "pdf_has_text")
    /\ UNCHANGED <<input, result>>

\* run_ocr returns: ocrmypdf ended with return code 0 or 6.
OcrSucceeds ==
    /\ pc = "run_ocr"
    /\ files' = [files EXCEPT !["tmp"] = OcrOutput(files["source"])]
    /\ locals' = [locals EXCEPT !.working_pdf = "tmp", !.ocr = "ok"]
    /\ pc' = "open_working"
    /\ trace' = Append(trace, "OCR")
    /\ UNCHANGED <<input, result, handles>>

\* run_ocr raises RuntimeError: ocrmypdf ended with another return code.
OcrFails ==
    /\ pc = "run_ocr"
    /\ files' = [files EXCEPT !["tmp"] = NoFile]
    /\ locals' = [locals EXCEPT !.working_pdf = "source", !.ocr = "RuntimeError"]
    /\ pc' = "open_working"
    /\ trace' = Append(trace, "OCR")
    /\ UNCHANGED <<input, result, handles>>

\* subprocess.run raises FileNotFoundError: there is no ocrmypdf to run.
\* It is no RuntimeError, so it leaves process_pdf.
OcrToolMissing ==
    /\ pc = "run_ocr"
    /\ pc' = "raised"
    /\ result' = "FileNotFoundError"
    /\ locals' = [locals EXCEPT !.ocr = "FileNotFoundError"]
    /\ trace' = Append(trace, "OCR")
    /\ UNCHANGED <<input, files, handles>>

\* Step 3: fitz.open(working_pdf)
OpenWorking ==
    /\ pc = "open_working"
    /\ locals' = [locals EXCEPT !.doc = OpenDocument(files[locals.working_pdf])]
    /\ handles' = handles \cup {"process_pdf"}
    /\ pc' = "extract"
    /\ UNCHANGED <<input, result, files, trace>>

\* extract_toc_from_text(doc, verbose), and doc.close()
ExtractToc ==
    /\ pc = "extract"
    /\ locals' = [locals EXCEPT !.toc_entries = extract_toc_from_text(locals.doc)]
    /\ handles' = Closed(handles, "process_pdf")
    /\ pc' = "add_bookmarks"
    /\ trace' = Append(trace, "Extract toc_page")
    /\ UNCHANGED <<input, result, files>>

\* the steps of add_bookmarks with the levels normalized before the offset
\* is looked for
AfterStepLevelsFirst(place) ==
    CASE place = "add_bookmarks" -> "normalize"
      [] place = "normalize" -> "find_offset"
      [] place = "find_offset" -> "write"

\* the statement of add_bookmarks that follows the one at place: the offset
\* is looked for, then the levels are normalized, then the outline is built
AfterStep(place) ==
    CASE place = "add_bookmarks" -> "find_offset"
      [] place = "find_offset" -> "normalize"
      [] place = "normalize" -> "write"

\* add_bookmarks: fitz.open(pdf_path)
AddOpen ==
    /\ pc = "add_bookmarks"
    /\ locals' = [locals EXCEPT !.doc = OpenDocument(files[locals.working_pdf])]
    /\ handles' = handles \cup {"add_bookmarks"}
    /\ pc' = AfterStep(pc)
    /\ UNCHANGED <<input, result, files, trace>>

\* add_bookmarks: page_offset = _find_page_offset(doc, toc_entries, verbose)
ResolveOffset ==
    /\ pc = "find_offset"
    /\ locals' = [locals EXCEPT !.page_offset = _find_page_offset(locals.doc, locals.toc_entries)]
    /\ pc' = AfterStep(pc)
    /\ trace' = Append(trace, "ResolveOffset")
    /\ UNCHANGED <<input, result, files, handles>>

\* add_bookmarks: normalized_entries = _normalize_levels(toc_entries)
Normalize ==
    /\ pc = "normalize"
    /\ locals' = [locals EXCEPT !.normalized_entries = _normalize_levels(locals.toc_entries)]
    /\ pc' = AfterStep(pc)
    /\ trace' = Append(trace, "Normalize")
    /\ UNCHANGED <<input, result, files, handles>>

\* the document saved if set_toc were called with every toc, the empty one too
SavedWithToc(doc, toc) == Document(doc.pages, toc)

\* the document saved: set_toc is called only with a non-empty toc
SavedDocument(doc, toc) == IF toc # <<>> THEN Document(doc.pages, toc) ELSE doc

\* add_bookmarks: the loop building toc, set_toc, save, and close
WriteOutline ==
    /\ pc = "write"
    /\ LET toc == BuildToc(locals.normalized_entries, locals.page_offset, PageCount(locals.doc))
           saved == SavedDocument(locals.doc, toc)
       IN  /\ locals' = [locals EXCEPT !.toc = toc, !.doc = saved]
           /\ files' = [files EXCEPT !["output"] =
                           PdfFile(saved.pages, saved.toc, files[locals.working_pdf].scan)]
    /\ handles' = Closed(handles, "add_bookmarks")
    /\ pc' = "added"
    /\ trace' = Append(trace, "WriteOutline")
    /\ UNCHANGED <<input, result>>

\* add_bookmarks: the same, when doc.save raises because the output cannot
\* be written: the finally clause closes doc, nothing catches the exception
SaveFails ==
    /\ pc = "write"
    /\ locals' = [locals EXCEPT !.toc = BuildToc(locals.normalized_entries, locals.page_offset,
                                                 PageCount(locals.doc))]
    /\ handles' = Closed(handles, "add_bookmarks")
    /\ pc' = "raised"
    /\ result' = "save failed"
    /\ trace' = Append(trace, "WriteOutline")
    /\ UNCHANGED <<input, files>>

\* the end of process_pdf: the temporary file is removed if it is there
Cleanup ==
    /\ pc = "added"
    /\ files' = IF locals.needs_ocr /\ locals.tmp_path /\ files["tmp"].exists
                THEN [files EXCEPT !["tmp"] = NoFile] ELSE files
    /\ pc' = "done"
    /\ result' = "None"
    /\ trace' = Append(trace, "Done")
    /\ UNCHANGED <<input, locals, handles>>

(***************************************************************************)
(* The specification of add_bookmarks: every list of at most MaxEntries    *)
(* entries, with levels up to MaxLevel, on each of the documents below.    *)
(***************************************************************************)
MaxEntries == 3
MaxLevel == 3

\* Aa
T_Short ==
    <<"A", "a">>
\* 1. Further Results
T_Results ==
    <<"1", ".", " ", "F", "u", "r", "t", "h", "e", "r", " ", "R", "e", "s", "u", "l", "t",
      "s">>
\* Basic Ideas
T_Ideas ==
    <<"B", "a", "s", "i", "c", " ", "I", "d", "e", "a", "s">>
\* Contents
P_Contents ==
    <<"C", "o", "n", "t", "e", "n", "t", "s">>
\* Further results\nof the study
P_Results ==
    <<"F", "u", "r", "t", "h", "e", "r", " ", "r", "e", "s", "u", "l", "t", "s", "\n", "o",
      "f", " ", "t", "h", "e", " ", "s", "t", "u", "d", "y">>
\* The basic ideas
P_Ideas ==
    <<"T", "h", "e", " ", "b", "a", "s", "i", "c", " ", "i", "d", "e", "a", "s">>
\* x
P_Body ==
    <<"x">>

\* the logical pages of the entries, and the title an entry has on each
EntryPages == {1, 2, 6, 9}
TitleOnPage(page) == IF page = 6 THEN T_Results ELSE IF page = 9 THEN T_Ideas ELSE T_Short

EntryChoices == {TocEntry(level, TitleOnPage(page), page) : level \in 1..MaxLevel, page \in EntryPages}
EntryLists == UNION {[1..n -> EntryChoices] : n \in 0..MaxEntries}

\* documents of 1, 2 and 9 pages; in the last, page 8 holds the words of
\* T_Results (logical page 6) and page 5 those of T_Ideas (logical page 9)
BookmarkDocs ==
    {<<P_Body>>, <<P_Body, P_Body>>,
     <<P_Contents, P_Body, P_Body, P_Body, P_Ideas, P_Body, P_Body, P_Results, P_Body>>}

InitBookmarks ==
    /\ pc = "add_bookmarks"
    /\ \E pages \in BookmarkDocs, toc_entries \in EntryLists :
          /\ input = [pdf_path |-> "source", toc_entries |-> toc_entries, output_path |-> "output"]
          /\ files = [p \in Paths |-> IF p = "source" THEN PdfFile(pages, <<>>, pages) ELSE NoFile]
          /\ locals = [NoLocals EXCEPT !.toc_entries = toc_entries]
    /\ result = "running"
    /\ handles = {}
    /\ trace = <<>>

NextBookmarks == AddOpen \/ ResolveOffset \/ Normalize \/ WriteOutline \/ SaveFails

SpecBookmarks == InitBookmarks /\ [][NextBookmarks]_vars

(***************************************************************************)
(* Properties of add_bookmarks, under SpecBookmarks.                       *)
(***************************************************************************)
Levels(es) == [k \in DOMAIN es |-> es[k].level]
Pages(es) == [k \in DOMAIN es |-> es[k].page]

\* the first level is 1 and no level exceeds the one before it by more than 1
StartsAtOneNoSkips(es) ==
    /\ es[1].level = 1
    /\ \A k \in DOMAIN es : es[k].level >= 1
    /\ \A k \in 1..(Len(es) - 1) : es[k + 1].level <= es[k].level + 1

\* C1: for every non-empty entry list given to _normalize_levels, the result
\* has the entries of the input in the same order, its first level is 1, its
\* minimum level is exactly 1, and no level exceeds the level before it by
\* more than 1; the outline written from it starts at level 1 and skips no level.
C1_NormalizerInvariant ==
    /\ (pc \in {"write", "added"} /\ locals.toc_entries # <<>>) =>
          /\ Len(locals.normalized_entries) = Len(locals.toc_entries)
          /\ \A k \in DOMAIN locals.toc_entries :
                /\ locals.normalized_entries[k].title = locals.toc_entries[k].title
                /\ locals.normalized_entries[k].page = locals.toc_entries[k].page
          /\ StartsAtOneNoSkips(locals.normalized_entries)
    /\ (pc = "added" /\ locals.toc_entries # <<>>) =>
          /\ files["output"].toc = locals.toc
          /\ Levels(locals.toc) = Levels(locals.normalized_entries)
          /\ StartsAtOneNoSkips(files["output"].toc)

\* an outline was written from entries whose levels were both shifted and capped
C1_Witness ==
    /\ pc = "added"
    /\ Levels(locals.toc_entries) = <<3, 3, 2>>
    /\ Levels(files["output"].toc) = <<1, 2, 1>>

\* the level of the k-th entry less the least level of the list, plus 1
ShiftedLevel(es, k) == es[k].level - SetMin(Range(Levels(es))) + 1

\* C29: _normalize_levels raises no entry's level above its shifted level
\* (level - min level + 1), keeps the number, the order, the titles and the
\* pages of the entries, and is idempotent: normalizing its result gives an
\* equal list, and a list that starts at level 1 with no jump greater than 1
\* is returned as it is.
C29_NormalizerIdempotent ==
    pc \in {"write", "added"} =>
        /\ Len(locals.normalized_entries) = Len(input.toc_entries)
        /\ \A k \in DOMAIN input.toc_entries :
              /\ locals.normalized_entries[k].level <= ShiftedLevel(input.toc_entries, k)
              /\ locals.normalized_entries[k].title = input.toc_entries[k].title
              /\ locals.normalized_entries[k].page = input.toc_entries[k].page
        /\ _normalize_levels(locals.normalized_entries) = locals.normalized_entries
        /\ (input.toc_entries # <<>> /\ StartsAtOneNoSkips(input.toc_entries)) =>
              locals.normalized_entries = input.toc_entries

\* entries at levels 3, 3 and 2 were normalized: the second one is at its
\* shifted level, the first one below it, and normalizing the result again
\* changes nothing
C29_Witness ==
    /\ pc = "write"
    /\ Levels(input.toc_entries) = <<3, 3, 2>>
    /\ Levels(locals.normalized_entries) = <<1, 2, 1>>
    /\ locals.normalized_entries[1].level < ShiftedLevel(input.toc_entries, 1)
    /\ _normalize_levels(locals.normalized_entries) = locals.normalized_entries

\* x brought into lo..hi
Clamp(x, lo, hi) == IF x < lo THEN lo ELSE IF x > hi THEN hi ELSE x

\* C2: in add_bookmarks one offset is resolved for the call and applied to
\* every entry: each written page is clamp(logical page + offset, 1, page
\* count), so every written page lies in 1..page count.
C2_OffsetApplied ==
    pc = "added" =>
        /\ Len(locals.toc) = Len(locals.toc_entries)
        /\ \A k \in DOMAIN locals.toc :
              /\ locals.toc[k].page = Clamp(locals.toc_entries[k].page + locals.page_offset,
                                            1, Len(files["source"].pages))
              /\ locals.toc[k].page \in 1..Len(files["source"].pages)
              /\ locals.toc[k].title = locals.toc_entries[k].title
        /\ locals.toc # <<>> => files["output"].toc = locals.toc

\* an outline was written with an offset found in the text, which left one
\* entry on a page of the document and took another below the first page
C2_Witness ==
    /\ pc = "added"
    /\ locals.page_offset = -4
    /\ \E k \in DOMAIN locals.toc_entries : locals.toc_entries[k].page + locals.page_offset < 1
    /\ \E k \in DOMAIN locals.toc_entries : locals.toc[k].page = 5

\* es is in the order of the key (page, level)
SortedByPageLevel(es) == \A i, j \in DOMAIN es : i < j => ~KeyLess(es[j], es[i])

\* the entries whose page the bounds checks changed
Clamped(k) ==
    locals.toc_entries[k].page + locals.page_offset \notin 1..Len(files["source"].pages)

\* C4 as stated: the sequence add_bookmarks writes, from entries sorted by
\* (page, level) as the extractors return them, is sorted by (page, level).
C4_WrittenSorted ==
    (pc = "added" /\ SortedByPageLevel(locals.toc_entries)) => SortedByPageLevel(locals.toc)

\* C4 as amended: the sequence written from entries sorted by (page, level)
\* is sorted by page, and by (page, level) among the entries whose page the
\* bounds checks left as it was.
C4_SortedUnlessClamped ==
    (pc = "added" /\ SortedByPageLevel(locals.toc_entries)) =>
        \A i, j \in DOMAIN locals.toc :
            i < j => /\ locals.toc[i].page <= locals.toc[j].page
                     /\ (~Clamped(i) /\ ~Clamped(j)) => ~KeyLess(locals.toc[j], locals.toc[i])

\* an outline was written with a non-zero offset from sorted entries, two of
\* them on one page at different levels, a third clamped to the last page
C4_Witness ==
    /\ pc = "added"
    /\ SortedByPageLevel(locals.toc_entries)
    /\ Len(locals.toc) = 3
    /\ locals.page_offset # 0
    /\ locals.toc[1].page = locals.toc[2].page /\ locals.toc[1].level < locals.toc[2].level
    /\ ~Clamped(1) /\ ~Clamped(2) /\ Clamped(3)


(***************************************************************************)
(* The specification of the extractors: each is called on every document   *)
(* of one page made of at most MaxBlocks of the blocks below, which hold   *)
(* the same entry in both grammars and in both cases of the title.         *)
(***************************************************************************)
MaxBlocks == 3

\* 1. Intro ... 5
B_DottedIntro ==
    <<"1", ".", " ", "I", "n", "t", "r", "o", " ", ".", ".", ".", " ", "5">>
\* 1. INTRO ... 5
B_DottedINTRO ==
    <<"1", ".", " ", "I", "N", "T", "R", "O", " ", ".", ".", ".", " ", "5">>
\* 1\nIntro\n5
B_LinesIntro ==
    <<"1", "\n", "I", "n", "t", "r", "o", "\n", "5">>
\* 1\nINTRO\n5
B_LinesINTRO ==
    <<"1", "\n", "I", "N", "T", "R", "O", "\n", "5">>
\* 1. Methods
B_Methods ==
    <<"1", ".", " ", "M", "e", "t", "h", "o", "d", "s">>
\* 1. METHODS
B_METHODS ==
    <<"1", ".", " ", "M", "E", "T", "H", "O", "D", "S">>
\* I\ncore\n7
B_Part ==
    <<"I", "\n", "c", "o", "r", "e", "\n", "7">>
\* methods
W_Methods ==
    <<"m", "e", "t", "h", "o", "d", "s">>
\* the
W_The ==
    <<"t", "h", "e">>

Blocks ==
    {P_Contents, B_DottedIntro, B_DottedINTRO, B_LinesIntro, B_LinesINTRO, B_Methods,
     B_METHODS, B_Part}

\* the texts of a page: the blocks chosen, one after the other
PageTexts == {Join(bs, <<"\n">>) : bs \in UNION {[1..n -> Blocks] : n \in 0..MaxBlocks}}

\* the word lists the scanner may have loaded
Vocabularies == {{}, {W_Methods}}
Starters == {W_The}

InitExtract ==
    /\ pc = "call"
    /\ \E text \in PageTexts :
          /\ input = [text |-> text]
          /\ files = [p \in Paths |-> IF p = "source" THEN PdfFile(<<text>>, <<>>, <<text>>)
                                      ELSE NoFile]
    /\ result = "running"
    /\ locals = NoLocals
    /\ handles = {}
    /\ trace = <<>>

\* what is left alone by a call of an extractor
Returned(name) ==
    /\ pc' = "returned"
    /\ trace' = Append(trace, name)
    /\ UNCHANGED <<input, files, locals, handles>>

\* _extract_dotted_leader_format(toc_text, total_pages, verbose)
CallDotted ==
    /\ pc = "call"
    /\ result' = [entries |-> _extract_dotted_leader_format(input.text, 1)]
    /\ Returned("_extract_dotted_leader_format")

\* _extract_line_by_line_format(toc_text, total_pages, verbose)
CallLineByLine ==
    /\ pc = "call"
    /\ result' = [entries |-> _extract_line_by_line_format(input.text, 1)]
    /\ Returned("_extract_line_by_line_format")

\* extract_toc_from_text(doc, verbose)
CallTocExtractor ==
    /\ pc = "call"
    /\ result' = TocExtraction(OpenDocument(files["source"]))
    /\ Returned("extract_toc_from_text")

\* extract_section_headers(doc, verbose), with the word lists it loaded
CallScanner ==
    /\ pc = "call"
    /\ \E vocabulary \in Vocabularies :
          result' = [entries |-> extract_section_headers(OpenDocument(files["source"]),
                                                        vocabulary, Starters),
                     vocabulary |-> vocabulary]
    /\ Returned("extract_section_headers")

NextExtract == CallDotted \/ CallLineByLine \/ CallTocExtractor \/ CallScanner

SpecExtract == InitExtract /\ [][NextExtract]_vars

(***************************************************************************)
(* Properties of the extractors, under SpecExtract.                        *)
(***************************************************************************)
\* no two entries of es have the same (lowercased title, page)
NoDuplicates(es) ==
    \A i, j \in DOMAIN es :
        i # j => ~(StrLower(es[i].title) = StrLower(es[j].title) /\ es[i].page = es[j].page)

\* C3: for every input text, the list each extractor returns (the dotted-leader
\* grammar, the line-triplet grammar, the section-header scanner, and
\* extract_toc_from_text as a whole) has no two entries with the same
\* (lowercased title, page).
C3_NoDuplicates == pc = "returned" => NoDuplicates(result.entries)

\* the scanner returned one entry for a page that holds the same header twice,
\* in two cases of the title
C3_Witness ==
    /\ pc = "returned"
    /\ trace = <<"extract_section_headers">>
    /\ input.text = Join(<<B_Methods, B_METHODS>>, <<"\n">>)
    /\ Len(result.entries) = 1

\* The trimmed non-empty lines of text hold a number, a roman numeral or a
\* subsection number, then a title that is neither a number nor a roman
\* numeral, then a page number, on three consecutive lines.
HasLineTriplet(text, total_pages) ==
    \E k \in 1..(Len(StripNonEmpty(Split(text, "\n"))) - 2) :
        /\ \/ ReMatch(DigitsRe, StripNonEmpty(Split(text, "\n"))[k], PlainFlags).ok
           \/ ReMatch(PartRe, StripNonEmpty(Split(text, "\n"))[k], IgnoreCase).ok
           \/ ReMatch(SubsecRe, StripNonEmpty(Split(text, "\n"))[k], PlainFlags).ok
        /\ ~ReMatch(DigitsRe, StripNonEmpty(Split(text, "\n"))[k + 1], PlainFlags).ok
        /\ ~ReMatch(RomanTitleRe, StripNonEmpty(Split(text, "\n"))[k + 1], PlainFlags).ok
        /\ _parse_page_number(StripNonEmpty(Split(text, "\n"))[k + 2], total_pages) # NoPage

\* C10: in extract_toc_from_text the line-triplet grammar is run iff the
\* dotted-leader grammar returned no entries, its entries are then the ones
\* returned, and whenever the text of the ToC pages has no dotted-leader
\* entry but holds a valid line triplet the list returned is not empty.
C10_GrammarFallback ==
    (pc = "returned" /\ trace = <<"extract_toc_from_text">> /\ result.found) =>
        /\ result.dotted_ran
        /\ result.line_ran <=> (result.dotted = <<>>)
        /\ ~result.line_ran => Range(result.entries) = Range(result.dotted)
        /\ (result.dotted = <<>> /\ HasLineTriplet(result.toc_text, 1)) => result.entries # <<>>

\* extract_toc_from_text returned the part found by the line-triplet grammar
\* in a text with no dotted-leader entry
C10_Witness ==
    /\ pc = "returned"
    /\ trace = <<"extract_toc_from_text">>
    /\ input.text = Join(<<P_Contents, B_Part>>, <<"\n">>)
    /\ result.dotted = <<>> /\ result.line_ran
    /\ HasLineTriplet(result.toc_text, 1)
    /\ Len(result.entries) = 1 /\ result.entries[1].level = 1 /\ result.entries[1].page = 7

(***************************************************************************)
(* The specification of the scorer and the scanner on one line: a          *)
(* numbering, a title and an ending, scored by _score_section_header and   *)
(* then scanned by extract_section_headers as the only line of a page.     *)
(***************************************************************************)
\* no numbering
N_None ==
    <<>>

\* 0.
N_0 ==
    <<"0", ".", " ">>

\* 1.
N_1 ==
    <<"1", ".", " ">>

\* 3.
N_3 ==
    <<"3", ".", " ">>

\* 12.
N_12 ==
    <<"1", "2", ".", " ">>

\* 16.
N_16 ==
    <<"1", "6", ".", " ">>

\* 21.
N_21 ==
    <<"2", "1", ".", " ">>

\* Results
H_Results ==
    <<"R", "e", "s", "u", "l", "t", "s">>

\* RESULTS
H_RESULTS ==
    <<"R", "E", "S", "U", "L", "T", "S">>

\* results
H_results ==
    <<"r", "e", "s", "u", "l", "t", "s">>

\* Experimental Results
H_ExperimentalResults ==
    <<"E", "x", "p", "e", "r", "i", "m", "e", "n", "t", "a", "l", " ", "R", "e", "s", "u",
      "l", "t", "s">>

\* References
H_References ==
    <<"R", "e", "f", "e", "r", "e", "n", "c", "e", "s">>

\* The Results
H_TheResults ==
    <<"T", "h", "e", " ", "R", "e", "s", "u", "l", "t", "s">>

\* Notes
H_Notes ==
    <<"N", "o", "t", "e", "s">>

\* Smith, K
H_Cited ==
    <<"S", "m", "i", "t", "h", ",", " ", "K">>

\* J. A. Smith, K. Lee
H_Authors ==
    <<"J", ".", " ", "A", ".", " ", "S", "m", "i", "t", "h", ",", " ", "K", ".", " ", "L",
      "e", "e">>

\* IEEE Results
H_Publisher ==
    <<"I", "E", "E", "E", " ", "R", "e", "s", "u", "l", "t", "s">>

\* Aa Bb Cc Dd Ee Ff Gg Hh Ii Jj Kk
H_Long ==
    <<"A", "a", " ", "B", "b", " ", "C", "c", " ", "D", "d", " ", "E", "e", " ", "F", "f",
      " ", "G", "g", " ", "H", "h", " ", "I", "i", " ", "J", "j", " ", "K", "k">>

\* results
W_Results ==
    <<"r", "e", "s", "u", "l", "t", "s">>

\* references
W_References ==
    <<"r", "e", "f", "e", "r", "e", "n", "c", "e", "s">>

\* experimental
W_Experimental ==
    <<"e", "x", "p", "e", "r", "i", "m", "e", "n", "t", "a", "l">>

\* a title of 77 characters: with "1. " before it the line has 80
H_Wide ==
    H_Long \o <<" ">> \o H_Long \o <<" ", "A", "a", " ", "B", "b", " ", "C", "c", " ", "D", "d">>

Numberings == {N_None, N_0, N_1, N_3, N_12, N_16, N_21}
Headings ==
    {H_Results, H_RESULTS, H_results, H_ExperimentalResults, H_References, H_TheResults,
     H_Notes, H_Cited, H_Authors, H_Publisher, H_Long, H_Wide}
Endings == {<<>>, <<".">>}
ScoredLines == {n \o h \o e : n \in Numberings, h \in Headings, e \in Endings}

\* the academic vocabularies the scorer may have loaded
ScoreVocabularies ==
    {{}, {W_Results, W_References}, {W_Results, W_References, W_Experimental}}

InitScore ==
    /\ pc = "call"
    /\ \E line \in ScoredLines, vocabulary \in ScoreVocabularies :
          /\ input = [line |-> line, vocabulary |-> vocabulary, starters |-> Starters]
          /\ files = [p \in Paths |-> IF p = "source" THEN PdfFile(<<line>>, <<>>, <<line>>)
                                      ELSE NoFile]
    /\ result = "running"
    /\ locals = NoLocals
    /\ handles = {}
    /\ trace = <<>>

\* _score_section_header(line, page_num)
CallScorer ==
    /\ pc = "call"
    /\ result' = _score_section_header(input.line, 1, input.vocabulary, input.starters)
    /\ pc' = "scored"
    /\ trace' = Append(trace, "_score_section_header")
    /\ UNCHANGED <<input, files, locals, handles>>

\* extract_section_headers(doc, verbose) on the page that holds the line
ScanLine ==
    /\ pc = "scored"
    /\ locals' = [locals EXCEPT !.toc_entries =
                     extract_section_headers(OpenDocument(files["source"]),
                                             input.vocabulary, input.starters)]
    /\ pc' = "scanned"
    /\ trace' = Append(trace, "extract_section_headers")
    /\ UNCHANGED <<input, result, files, handles>>

NextScore == CallScorer \/ ScanLine

SpecScore == InitScore /\ [][NextScore]_vars

(***************************************************************************)
(* Properties of the scorer and the scanner, under SpecScore.  Weights are *)
(* counted in twentieths, so that 0.35 is 7 and 0.4 is 8.                  *)
(***************************************************************************)
\* the title without its leading numbering, and its words
Unnumbered(title) == TitlePart(title, ReMatch(LeadingNumberRe, title, PlainFlags))
WordsOf(title) == SplitWords(Unnumbered(title))

\* the title words found in the vocabulary
VocabularyHits(title, vocabulary) == TitleWords(title) \cap vocabulary

AllUpper(title) == IsUpperStr(Unnumbered(title)) /\ Len(Unnumbered(title)) > 3
TitleCased(title) ==
    /\ Unnumbered(title) # <<>> /\ Unnumbered(title)[1] \in UpperChars
    /\ \A k \in DOMAIN WordsOf(title) :
          WordsOf(title)[k][1] \in UpperChars \/ StrLower(WordsOf(title)[k]) \in SmallWords

\* the leading section number of the title, -1 if it has none
LeadingNumber(title) ==
    IF ReMatch(SecNumRe, title, PlainFlags).ok
    THEN ParseInt(ReMatch(SecNumRe, title, PlainFlags).caps[1]) ELSE -1

Weight(cond, w) == IF cond THEN w ELSE 0

\* 0.35 and the adjustments of a line matched with the title, in twentieths
WeightSum(line, title, vocabulary, starters) ==
    7 + Min2(7, 3 * Cardinality(VocabularyHits(title, vocabulary)))
      + (IF AllUpper(title) THEN 4 ELSE Weight(TitleCased(title), 2))
      - Weight(EndsWithAny(Unnumbered(title), {".", ",", ";"}), 4)
      - Weight(Len(WordsOf(title)) = 1 /\ VocabularyHits(title, vocabulary) = {}, 3)
      - Weight(Len(WordsOf(title)) > 10, 4)
      - Weight(ReMatch(CitationRe, line, PlainFlags).ok, 10)
      - Weight(WordsOf(title) # <<>> /\ StrLower(WordsOf(title)[1]) \in starters, 6)
      - Weight(ReMatch(AuthorRe, line, PlainFlags).ok, 10)
      - Weight(ReSearch(PublisherRe, line, PlainFlags), 10)
      - Weight(LeadingNumber(title) > 15, 6)
      - Weight(LeadingNumber(title) = 0, 6)

\* the scanner added the candidate of the line to its result
Accepted == locals.toc_entries # <<>>

\* C11: every score returned by _score_section_header lies in [0, 1]; the
\* scanner accepts a candidate iff its score is >= 0.4; a candidate whose
\* adjustments sum to exactly 0.4 is accepted, and one below 0.4 is not.
C11_ThresholdInclusive ==
    /\ pc \in {"scored", "scanned"} =>
          FGe(result.score, F_0_0) /\ FGe(F_1_0, result.score)
    /\ (pc = "scanned" /\ result.ok) =>
          /\ Accepted <=> FGe(result.score, F_0_4)
          /\ WeightSum(input.line, result.entry.title, input.vocabulary, input.starters) = 8
                => Accepted
          /\ WeightSum(input.line, result.entry.title, input.vocabulary, input.starters) < 8
                => ~Accepted

\* a line matched by one of the four section patterns
MatchesPattern(line) == _try_match_section_pattern(line, 1).ok

\* the title _try_match_section_pattern gives the line
TitleOf(line) == _try_match_section_pattern(line, 1).entry.title

\* the score is the double of total twentieths, up to the rounding of the sums
ScoreIs(score, total) ==
    /\ score.n = Min2(20, IF total < 0 THEN 0 ELSE total)
    /\ score.d > -320 /\ score.d < 320

\* C12 as stated: for every line that matches a section pattern the score is
\* 0.35 plus the adjustments, clamped to [0, 1], and an entry is returned;
\* a line that matches no pattern scores 0 with no entry.
C12_ScoreOfEveryMatch ==
    pc = "scored" =>
        IF MatchesPattern(input.line)
        THEN /\ result.ok
             /\ ScoreIs(result.score, WeightSum(input.line, TitleOf(input.line),
                                                input.vocabulary, input.starters))
        ELSE ~result.ok /\ result.score = F_0_0

\* C12 as amended: the same for every line of at most 80 characters; a line
\* that matches no pattern, and a line longer than 80 characters, score 0
\* with no entry.
C12_ScoreOfShortMatch ==
    pc = "scored" =>
        IF MatchesPattern(input.line) /\ Len(input.line) <= 80
        THEN /\ result.ok
             /\ result.entry.title = TitleOf(input.line)
             /\ ScoreIs(result.score, WeightSum(input.line, TitleOf(input.line),
                                                input.vocabulary, input.starters))
        ELSE ~result.ok /\ result.score = F_0_0

\* '1. The Results' scored with 'results' in the vocabulary: 0.35 + 0.15 + 0.1
\* for the title case - 0.3 for the starter 'the'
C12_Witness ==
    /\ pc = "scored"
    /\ input.line = N_1 \o H_TheResults
    /\ W_Results \in input.vocabulary
    /\ result.ok /\ result.score.n = 6

\* the score _score_section_header gives '3. Experimental Results' with the
\* word lists of the call
ScoreOfExperimentalResults ==
    _score_section_header(N_3 \o H_ExperimentalResults, 1, input.vocabulary,
                          input.starters).score

\* the vocabulary of the call contains 'references' and 'results'
KnowsReferencesAndResults == {W_References, W_Results} \subseteq input.vocabulary

\* C13 as stated: with 'references' and 'results' in the vocabulary the line
\* '3. References' scores strictly lower than '3. Experimental Results' and is
\* still accepted, with no citation penalty on it, and the line
\* '12. J. A. Smith, K. Lee' is rejected.
C13_ReferencesLower ==
    (pc = "scanned" /\ KnowsReferencesAndResults) =>
        /\ input.line = N_3 \o H_References =>
              /\ ~FGe(result.score, ScoreOfExperimentalResults)
              /\ FGe(result.score, F_0_4) /\ Accepted
              /\ ~ReMatch(CitationRe, input.line, PlainFlags).ok
        /\ input.line = N_12 \o H_Authors => ~Accepted

\* C13 as amended: the score of '3. References' is not higher than that of
\* '3. Experimental Results', and strictly lower iff the vocabulary contains
\* 'experimental' too; the heading is accepted, with no citation penalty on
\* it; a citation line '1. Smith, K' and the author line
\* '12. J. A. Smith, K. Lee' are rejected.
C13_ReferencesNotHigher ==
    (pc = "scanned" /\ KnowsReferencesAndResults) =>
        /\ input.line = N_3 \o H_References =>
              /\ FGe(ScoreOfExperimentalResults, result.score)
              /\ ~FGe(result.score, ScoreOfExperimentalResults)
                    <=> W_Experimental \in input.vocabulary
              /\ FGe(result.score, F_0_4) /\ Accepted
              /\ ~ReMatch(CitationRe, input.line, PlainFlags).ok
        /\ input.line = N_1 \o H_Cited =>
              ReMatch(CitationRe, input.line, PlainFlags).ok /\ ~Accepted
        /\ input.line = N_12 \o H_Authors =>
              ReMatch(AuthorRe, input.line, PlainFlags).ok /\ ~Accepted

\* '3. References' accepted with the score of '3. Experimental Results', the
\* vocabulary holding 'references' and 'results' only
C13_Witness ==
    /\ pc = "scanned"
    /\ input.line = N_3 \o H_References
    /\ input.vocabulary = {W_References, W_Results}
    /\ Accepted
    /\ result.score = ScoreOfExperimentalResults

(***************************************************************************)
(* The specification of verify_bookmarks: every list of at most MaxOutline *)
(* of the entries below, and some longer ones, on documents of 2, 11 and   *)
(* 50 pages.                                                               *)
(***************************************************************************)
MaxOutline == 3

\* Basic Ideas Notes Results
T_Mixed == T_Ideas \o <<" ">> \o H_Notes \o <<" ">> \o H_Results
\* Basic Ideas further results
T_Lower == T_Ideas \o <<" ", "f", "u", "r", "t", "h", "e", "r", " ">> \o H_results

\* 11 pages: page 1 is the contents page, page 5 holds the words of T_Ideas,
\* page 8 those of T_Results and one word of T_Mixed
Pages11 ==
    <<P_Contents, P_Body, P_Body, P_Body, P_Ideas, P_Body, P_Body, P_Results, P_Body, P_Body,
      P_Body>>
VerifyDocs == {<<P_Body, P_Body>>, Pages11, [k \in 1..50 |-> P_Body]}

\* titles with no keyword, with two (found on page 8 of Pages11, or not on
\* page 1 and page 8), with one (not on page 5), and with four (one of them
\* on page 8, or the two in lower case)
VerifyTargets ==
    {<<T_Short, 1>>, <<T_Short, 0>>, <<T_Short, 60>>, <<T_Results, 8>>, <<T_Ideas, 8>>,
     <<T_Ideas, 1>>, <<H_Results, 5>>, <<T_Mixed, 8>>, <<T_Lower, 8>>}
VerifyEntries == {TocEntry(level, t[1], t[2]) : level \in 1..2, t \in VerifyTargets}

\* outlines of six entries, four of them on page 1
LongOutlines ==
    {<<a, a, b, a, a, c>> : a \in {TocEntry(1, T_Short, 1), TocEntry(1, T_Ideas, 1)},
                            b \in {TocEntry(2, T_Ideas, 8), TocEntry(2, T_Short, 60)},
                            c \in {TocEntry(2, T_Results, 8), TocEntry(2, H_Results, 5)}}
Outlines == UNION {[1..n -> VerifyEntries] : n \in 0..MaxOutline} \cup LongOutlines

InitVerify ==
    /\ pc = "call"
    /\ \E pages \in VerifyDocs, bookmarks \in Outlines :
          /\ input = [bookmarks |-> bookmarks]
          /\ files = [p \in Paths |-> IF p = "source" THEN PdfFile(pages, <<>>, pages) ELSE NoFile]
    /\ result = "running"
    /\ locals = NoLocals
    /\ handles = {}
    /\ trace = <<>>

\* verify_bookmarks(doc, bookmarks, verbose)
CallVerify ==
    /\ pc = "call"
    /\ result' = verify_bookmarks(OpenDocument(files["source"]), input.bookmarks)
    /\ pc' = "returned"
    /\ trace' = Append(trace, "verify_bookmarks")
    /\ UNCHANGED <<input, files, locals, handles>>

NextVerify == CallVerify

SpecVerify == InitVerify /\ [][NextVerify]_vars

(***************************************************************************)
(* Properties of verify_bookmarks, under SpecVerify.                       *)
(***************************************************************************)
\* the issue is among those returned
Reports(issue) == issue \in Range(result.issues)

\* the entries of the outline all have one level, and all one page
OneLevel(bookmarks) == \A i, j \in DOMAIN bookmarks : bookmarks[i].level = bookmarks[j].level
OnePage(bookmarks) == \A i, j \in DOMAIN bookmarks : bookmarks[i].page = bookmarks[j].page

\* C14 as stated: an outline of 1 to 3 entries that all share one level,
\* whatever it is, and all point to the same physical page gets the
\* 'lacks structure' issue and is not valid.
C14_FlatAtAnyLevel ==
    (/\ pc = "returned"
     /\ Len(input.bookmarks) \in 1..3
     /\ OneLevel(input.bookmarks) /\ OnePage(input.bookmarks)) =>
        Reports("lacks structure") /\ ~result.is_valid

\* C14 as amended: the 'lacks structure' issue is reported, and the outline
\* is not valid, for every outline of 1 to 3 entries that are all of level 1
\* and all point to the same physical page; it is reported for no other.
C14_FlatAtLevelOne ==
    pc = "returned" =>
        /\ Reports("lacks structure") <=>
              /\ Len(input.bookmarks) \in 1..3
              /\ \A k \in DOMAIN input.bookmarks : input.bookmarks[k].level = 1
              /\ OnePage(input.bookmarks)
        /\ Reports("lacks structure") => ~result.is_valid

\* 2 entries, both of level 1 and on page 1 of the 50-page document, reported
C14_Witness ==
    /\ pc = "returned"
    /\ Len(files["source"].pages) = 50
    /\ input.bookmarks = <<TocEntry(1, T_Short, 1), TocEntry(1, T_Short, 1)>>
    /\ Reports("lacks structure") /\ ~result.is_valid

\* C15 as stated: an outline of fewer than 3 entries (0, 1 or 2) in a document
\* of more than 10 pages gets the 'too few bookmarks' issue and is not valid.
C15_TooFewFromZero ==
    (pc = "returned" /\ Len(input.bookmarks) < 3 /\ Len(files["source"].pages) > 10) =>
        Reports("too few bookmarks") /\ ~result.is_valid

\* C15 as amended: the 'too few bookmarks' issue is reported, and the outline
\* is not valid, for every outline of 1 or 2 entries whenever the document
\* has more than 10 pages; it is reported in no other case.
C15_TooFewFromOne ==
    pc = "returned" =>
        /\ Reports("too few bookmarks") <=>
              (Len(input.bookmarks) \in 1..2 /\ Len(files["source"].pages) > 10)
        /\ Reports("too few bookmarks") => ~result.is_valid
        /\ input.bookmarks = <<>> => (result.is_valid /\ result.issues = <<>>)

\* one entry whose words are on its page of the 11-page document: too few
\* bookmarks is the only issue
C15_Witness ==
    /\ pc = "returned"
    /\ files["source"].pages = Pages11
    /\ input.bookmarks = <<TocEntry(2, T_Results, 8)>>
    /\ result.issues = <<"too few bookmarks">> /\ ~result.is_valid

\* the entries verify_bookmarks samples
SampleOf(bookmarks) == Take(SortForSample(bookmarks), Min2(5, Len(bookmarks)))

\* the sample has up to 5 entries, and one on page 1 only if every entry that
\* is not on page 1 is in it
PrefersOtherPages(bookmarks) ==
    /\ Len(SampleOf(bookmarks)) = Min2(5, Len(bookmarks))
    /\ (\E k \in DOMAIN SampleOf(bookmarks) : SampleOf(bookmarks)[k].page = 1) =>
          Cardinality({k \in DOMAIN SampleOf(bookmarks) : SampleOf(bookmarks)[k].page # 1})
             = Cardinality({k \in DOMAIN bookmarks : bookmarks[k].page # 1})

InRange(entry) == entry.page \in 1..Len(files["source"].pages)

\* the words of 4 letters or more of the title, and those with a capital
LongWords(title) == FindAllText(TitleKeywordRe, title, PlainFlags)
StartsUpper(w) == w[1] \in UpperChars
CapitalizedWords(title) == SelectSeq(LongWords(title), StartsUpper)

\* how many of the keywords occur in the text of the page of the entry,
\* whatever the case
FoundOnPage(entry, keywords) ==
    Cardinality({k \in DOMAIN keywords :
                    Contains(StrLower(files["source"].pages[entry.page]), StrLower(keywords[k]))})

\* fewer than half of the capitalized keywords occur, and one is missing
MismatchAsStated(entry) ==
    /\ 2 * FoundOnPage(entry, CapitalizedWords(entry.title)) < Len(CapitalizedWords(entry.title))
    /\ FoundOnPage(entry, CapitalizedWords(entry.title)) < Len(CapitalizedWords(entry.title))

\* there are two keywords or more, of any case, and none occurs
MismatchOfNone(entry) ==
    /\ Len(LongWords(entry.title)) >= 2
    /\ FoundOnPage(entry, LongWords(entry.title)) = 0

\* C16 as stated: a sampled in-range entry is a content mismatch iff fewer
\* than half of its keywords (capitalized words of length >= 4 of its title)
\* occur case-insensitively in the text of its page and at least one is
\* missing; the content-mismatch issue is reported iff the mismatching
\* entries exceed half the sample, of up to 5 entries, preferring entries not
\* on page 1.
C16_MismatchBelowHalf ==
    pc = "returned" =>
        /\ PrefersOtherPages(input.bookmarks)
        /\ Reports("content mismatch") <=>
              2 * Cardinality({k \in DOMAIN SampleOf(input.bookmarks) :
                                  /\ InRange(SampleOf(input.bookmarks)[k])
                                  /\ MismatchAsStated(SampleOf(input.bookmarks)[k])})
                 > Len(SampleOf(input.bookmarks))

\* C16 as amended: a sampled in-range entry is a content mismatch iff it has
\* at least two keywords (words of 4 letters or more of its title, of any
\* case) and none of them occurs case-insensitively in the text of its page;
\* the rest as stated.
C16_MismatchOfNone ==
    pc = "returned" =>
        /\ PrefersOtherPages(input.bookmarks)
        /\ Reports("content mismatch") <=>
              2 * Cardinality({k \in DOMAIN SampleOf(input.bookmarks) :
                                  /\ InRange(SampleOf(input.bookmarks)[k])
                                  /\ MismatchOfNone(SampleOf(input.bookmarks)[k])})
                 > Len(SampleOf(input.bookmarks))

\* six entries, four on page 1: the sample has the two on page 8 and three of
\* page 1, four of the five are mismatches, and the issue is reported
C16_Witness ==
    /\ pc = "returned"
    /\ files["source"].pages = Pages11
    /\ Len(input.bookmarks) = 6
    /\ input.bookmarks[1] = TocEntry(1, T_Ideas, 1)
    /\ input.bookmarks[3] = TocEntry(2, T_Ideas, 8)
    /\ input.bookmarks[6] = TocEntry(2, T_Results, 8)
    /\ Reports("content mismatch")

\* the place of a kind of issue in the order of the four checks
CheckOf(issue) ==
    CASE issue = "lacks structure" -> 1
      [] issue = "too few bookmarks" -> 2
      [] issue = "invalid page" -> 3
      [] issue = "content mismatch" -> 4

HowMany(issue) == Cardinality({k \in DOMAIN result.issues : result.issues[k] = issue})

\* C17: verify_bookmarks returns is_valid = TRUE iff its list of issues is
\* empty; the issues are in the order of the checks (structure, density,
\* invalid page, content); each check contributes on its own condition,
\* whatever the other checks found; every sampled entry whose page is < 1 or
\* beyond the page count adds one invalid-page issue.
C17_ValidIffNoIssue ==
    pc = "returned" =>
        /\ result.is_valid <=> result.issues = <<>>
        /\ \A i, j \in DOMAIN result.issues :
              i < j => CheckOf(result.issues[i]) <= CheckOf(result.issues[j])
        /\ input.bookmarks # <<>> =>
              /\ HowMany("lacks structure") =
                    (IF /\ Len(input.bookmarks) <= 3
                        /\ OnePage(input.bookmarks)
                        /\ \A k \in DOMAIN input.bookmarks : input.bookmarks[k].level = 1
                     THEN 1 ELSE 0)
              /\ HowMany("too few bookmarks") =
                    (IF Len(input.bookmarks) < 3 /\ Len(files["source"].pages) > 10
                     THEN 1 ELSE 0)
              /\ HowMany("invalid page") =
                    Cardinality({k \in DOMAIN SampleOf(input.bookmarks) :
                                    ~InRange(SampleOf(input.bookmarks)[k])})
              /\ HowMany("content mismatch") =
                    (IF 2 * Cardinality({k \in DOMAIN SampleOf(input.bookmarks) :
                                            /\ InRange(SampleOf(input.bookmarks)[k])
                                            /\ MismatchOfNone(SampleOf(input.bookmarks)[k])})
                           > Len(SampleOf(input.bookmarks))
                     THEN 1 ELSE 0)

\* two entries of level 1 on page 60 of the 50-page document: the first three
\* checks fire, the third once for each entry
C17_Witness ==
    /\ pc = "returned"
    /\ Len(files["source"].pages) = 50
    /\ result.issues = <<"lacks structure", "too few bookmarks", "invalid page", "invalid page">>
    /\ ~result.is_valid

\* the offsets recorded for the entries of the call, one at most for each
\* tested entry, in the order of the tests
OffsetsRecorded ==
    RecordedOffsets(locals.doc, TestEntries(input.toc_entries), TocPageIndices(locals.doc))

TimesRecorded(offsets, o) == Cardinality({k \in DOMAIN offsets : offsets[k] = o})
FirstRecorded(offsets, o) == SetMin({k \in DOMAIN offsets : offsets[k] = o})

\* best is 0 if no offset is recorded, and else the offset recorded most
\* often, the first recorded of those recorded as often
MostFrequentFirst(offsets, best) ==
    IF offsets = <<>> THEN best = 0
    ELSE /\ best \in Range(offsets)
         /\ \A q \in Range(offsets) :
               \/ TimesRecorded(offsets, best) > TimesRecorded(offsets, q)
               \/ /\ TimesRecorded(offsets, best) = TimesRecorded(offsets, q)
                  /\ FirstRecorded(offsets, best) <= FirstRecorded(offsets, q)

\* C18: _find_page_offset returns the offset recorded most often over the
\* tested entries, and of two recorded equally often the one recorded first;
\* it returns 0 when there is no entry, no test entry or no offset recorded;
\* what it returns is in -20..29.
C18_MostFrequentOffset ==
    pc = "normalize" =>
        /\ locals.page_offset \in -20..29
        /\ input.toc_entries = <<>> => locals.page_offset = 0
        /\ TestEntries(input.toc_entries) = <<>> => locals.page_offset = 0
        /\ MostFrequentFirst(OffsetsRecorded, locals.page_offset)

\* two offsets recorded as often as each other, the first of them returned
TieWonByFirst(offsets, best) ==
    Len(offsets) = 2 /\ offsets[1] # offsets[2] /\ best = offsets[1] /\ best # 0

C18_Witness == pc = "normalize" /\ TieWonByFirst(OffsetsRecorded, locals.page_offset)

(***************************************************************************)
(* The specification of the entry objects: add_bookmarks is called with a  *)
(* list of references to TocEntry objects, two of which may be the same    *)
(* object.                                                                 *)
(***************************************************************************)
MaxObjects == 2

ObjectValues == {TocEntry(level, T_Short, page) : level \in 1..MaxLevel, page \in {1, 3}}
Heaps == UNION {[1..n -> ObjectValues] : n \in 0..MaxObjects}
RefLists(heap) == UNION {[1..n -> DOMAIN heap] : n \in 0..MaxEntries}

InitObjects ==
    /\ pc = "normalize_objects"
    /\ \E heap \in Heaps : \E refs \in RefLists(heap) :
          /\ input = [pdf_path |-> "source", toc_entries |-> refs, heap |-> heap]
          /\ locals = [heap |-> heap, toc_entries |-> refs, normalized_entries |-> <<>>,
                       doc |-> Document(<<P_Body, P_Body>>, <<>>), toc |-> <<>>]
    /\ files = [p \in Paths |-> IF p = "source"
                                THEN PdfFile(<<P_Body, P_Body>>, <<>>, <<P_Body, P_Body>>)
                                ELSE NoFile]
    /\ result = "running"
    /\ handles = {}
    /\ trace = <<>>

\* add_bookmarks: normalized_entries = _normalize_levels(toc_entries)
NormalizeObjects ==
    /\ pc = "normalize_objects"
    /\ locals' = [locals EXCEPT
                     !.heap = NormalizedObjects(locals.heap, locals.toc_entries).heap,
                     !.normalized_entries = NormalizedObjects(locals.heap, locals.toc_entries).refs]
    /\ pc' = "build_rows"
    /\ UNCHANGED <<input, result, files, handles, trace>>

\* add_bookmarks: the offset and the loop appending [level, title, pdf_page]
BuildRows ==
    /\ pc = "build_rows"
    /\ locals' = [locals EXCEPT
                     !.toc = BuildToc(Deref(locals.heap, locals.normalized_entries),
                                      _find_page_offset(locals.doc,
                                                        Deref(locals.heap, locals.toc_entries)),
                                      PageCount(locals.doc))]
    /\ pc' = "rows_built"
    /\ UNCHANGED <<input, result, files, handles, trace>>

NextObjects == NormalizeObjects \/ BuildRows

SpecObjects == InitObjects /\ [][NextObjects]_vars

(***************************************************************************)
(* Properties of the entry objects, under SpecObjects.                     *)
(***************************************************************************)
\* C21: TocEntry values are never mutated after creation: _normalize_levels
\* and add_bookmarks leave the list of the caller as it was (its length, its
\* order, the level, title and page of every entry), and the entries of the
\* transformed outline are new ones.
C21_EntriesNotMutated ==
    /\ locals.toc_entries = input.toc_entries
    /\ \A o \in DOMAIN input.heap : locals.heap[o] = input.heap[o]
    /\ Deref(locals.heap, locals.toc_entries) = Deref(input.heap, input.toc_entries)
    /\ pc \in {"build_rows", "rows_built"} =>
          /\ \A k \in DOMAIN locals.normalized_entries :
                locals.normalized_entries[k] \notin DOMAIN input.heap
          /\ Deref(locals.heap, locals.normalized_entries)
                = _normalize_levels(Deref(input.heap, input.toc_entries))

\* three entries, the first and the last the same object of level 2, were
\* normalized to other levels and written; the objects are as they were
C21_Witness ==
    /\ pc = "rows_built"
    /\ Len(input.toc_entries) = 3
    /\ input.toc_entries[1] = input.toc_entries[3]
    /\ input.heap[input.toc_entries[1]].level = 2
    /\ Deref(locals.heap, locals.normalized_entries)[1].level = 1
    /\ Len(locals.toc) = 3
    /\ locals.heap[input.toc_entries[1]].level = 2

(***************************************************************************)
(* The specification of the scan of _extract_line_by_line_format, one step *)
(* for each iteration of its while loop, on every text of at most MaxLines *)
(* of the lines below.  trace records the cursor before and after each     *)
(* iteration.  What the loop computes from lines and i alone, whether      *)
(* lines[i] is noise and what _try_parse_toc_entry(lines, i, total_pages)  *)
(* returns, is tabulated for every i when the function is entered.         *)
(***************************************************************************)
MaxLines == 4

L_1 == <<"1">>
L_5 == <<"5">>
L_I == <<"I">>
L_iv == <<"i", "v">>
L_Sub == <<"1", ".", "1">>
L_Intro == <<"I", "n", "t", "r", "o">>
\* May 2, 2010
L_Date == <<"M", "a", "y", " ", "2", ",", " ", "2", "0", "1", "0">>

ScanLines == {L_1, L_5, L_I, L_iv, L_Sub, L_Intro, L_Date, P_Contents}
ScanTexts == {Join(ls, <<"\n">>) : ls \in UNION {[1..n -> ScanLines] : n \in 0..MaxLines}}

\* the locals of the function at the while loop, for lines
ScanLocals(lines, total_pages) ==
    [lines |-> lines, i |-> 0, toc_entries |-> <<>>,
     noise |-> [k \in DOMAIN lines |-> IsNoiseLine(lines[k])],
     attempt |-> [k \in DOMAIN lines |-> _try_parse_toc_entry(lines, k - 1, total_pages)]]

\* the call, up to the while loop: lines, i = 0
InitLines ==
    /\ pc = "scan"
    /\ \E text \in ScanTexts :
          /\ input = [text |-> text, total_pages |-> 1]
          /\ locals = ScanLocals(StripNonEmpty(Split(text, "\n")), 1)
    /\ files = [p \in Paths |-> NoFile]
    /\ result = [returned |-> FALSE, entries |-> <<>>]
    /\ handles = {}
    /\ trace = <<>>

\* an iteration that moves the cursor from locals.i to next
Iterated(kind, next) ==
    /\ trace' = Append(trace, [kind |-> kind, at |-> locals.i, to |-> next])
    /\ pc' = "scan"
    /\ UNCHANGED <<input, result, files, handles>>

\* if any(re.match(p, line, re.IGNORECASE) for p in skip_patterns[:3]): i += 1
SkipNoise ==
    /\ pc = "scan" /\ locals.i < Len(locals.lines)
    /\ locals.noise[locals.i + 1]
    /\ locals' = [locals EXCEPT !.i = locals.i + 1]
    /\ Iterated("noise", locals.i + 1)

\* if entry: toc_entries.append(entry[0]); i = entry[1]
TakeEntry ==
    /\ pc = "scan" /\ locals.i < Len(locals.lines)
    /\ ~locals.noise[locals.i + 1]
    /\ locals.attempt[locals.i + 1].ok
    /\ locals' = [locals EXCEPT
                     !.toc_entries = Append(locals.toc_entries, locals.attempt[locals.i + 1].entry),
                     !.i = locals.attempt[locals.i + 1].next]
    /\ Iterated("entry", locals.attempt[locals.i + 1].next)

\* else: i += 1
SkipLine ==
    /\ pc = "scan" /\ locals.i < Len(locals.lines)
    /\ ~locals.noise[locals.i + 1]
    /\ ~locals.attempt[locals.i + 1].ok
    /\ locals' = [locals EXCEPT !.i = locals.i + 1]
    /\ Iterated("line", locals.i + 1)

\* the loop ends; the deduplication, and return unique_entries
Deduplicate ==
    /\ pc = "scan" /\ locals.i >= Len(locals.lines)
    /\ result' = [returned |-> TRUE, entries |-> UniqueEntries(locals.toc_entries, {})]
    /\ pc' = "returned"
    /\ UNCHANGED <<input, files, locals, handles, trace>>

NextLines == SkipNoise \/ TakeEntry \/ SkipLine \/ Deduplicate

SpecLines == InitLines /\ [][NextLines]_vars

\* the function runs on: an iteration that can be taken is taken
SpecLinesLive == SpecLines /\ WF_vars(NextLines)

(***************************************************************************)
(* Properties of the scan, under SpecLines and SpecLinesLive.              *)
(***************************************************************************)
\* the iterations that appended an entry, and the entry the k-th one appended
EntrySteps == {k \in DOMAIN trace : trace[k].kind = "entry"}
EntryOfStep(k) == locals.toc_entries[Cardinality({j \in EntrySteps : j <= k})]

\* the lines (numbered from 1) between the cursor before and after a step
LinesOfStep(k) == (trace[k].at + 1)..trace[k].to

\* the entry is of the Title/page shape: its title is the line at the cursor
TitlePageShape(k) == EntryOfStep(k).title = locals.lines[trace[k].at + 1]

\* every iteration so far moved the cursor forward: by the 2 lines of a
\* Title/page entry, by 3 lines for an entry of another shape, by one line
\* otherwise; no line is among the lines of two entries
CursorAdvances ==
    /\ \A k \in DOMAIN trace :
          /\ trace[k].to > trace[k].at
          /\ k > 1 => trace[k].at = trace[k - 1].to
          /\ trace[k].kind = "entry" =>
                trace[k].to - trace[k].at = (IF TitlePageShape(k) THEN 2 ELSE 3)
          /\ trace[k].kind # "entry" => trace[k].to = trace[k].at + 1
    /\ \A k, m \in EntrySteps : k # m => LinesOfStep(k) \cap LinesOfStep(m) = {}
    /\ \A k \in EntrySteps : LinesOfStep(k) \subseteq DOMAIN locals.lines

\* C22: in _extract_line_by_line_format the cursor strictly increases on
\* every iteration: past exactly the lines of the entry after a match (3 for
\* the number, roman-numeral and N.N shapes, 2 for the Title/page shape, also
\* when a bare chapter number follows), by one line otherwise; the scan
\* terminates, and no line taken by an entry is part of another entry.
C22_CursorAdvances == [](pc \in {"scan", "returned"} => CursorAdvances) /\ <>(pc = "returned")

\* the scan returned after a Title/page entry that a bare chapter number
\* follows, of 2 lines, and an entry of 3 lines
C22_Witness ==
    /\ pc = "returned"
    /\ locals.lines = <<L_Intro, L_5, L_1, L_Intro>>
    /\ Len(trace) = 3
    /\ trace[1] = [kind |-> "entry", at |-> 0, to |-> 2]
    /\ trace[2].kind = "line"

\* a bare 'contents' or 'table of contents' or a date-like line, in any
\* case; a bare lowercase roman numeral
HeaderNoise(line) == \E k \in 1..3 : ReMatch(skip_patterns[k], line, IgnoreCase).ok
LowerRoman(line) == ReMatch(skip_patterns[4], line, PlainFlags).ok

\* the first line of the entry of step k, the last one, and those between
FirstLineOf(k) == locals.lines[trace[k].at + 1]
PageLineOf(k) == locals.lines[trace[k].to]
TitleLinesOf(k) == {locals.lines[j] : j \in (trace[k].at + 2)..(trace[k].to - 1)}

\* C23 as stated: the lines matching a noise pattern (a bare 'contents' or
\* 'table of contents', a date-like line, a bare lowercase roman numeral) are
\* dropped before the scan: none is the number, title or page line of an
\* entry.
C23_NoiseNeverUsed ==
    \A k \in EntrySteps : \A j \in LinesOfStep(k) :
        ~HeaderNoise(locals.lines[j]) /\ ~LowerRoman(locals.lines[j])

\* C23 as amended: a line matching one of the first three noise patterns (a
\* bare 'contents' or 'table of contents', a date-like line) is skipped when
\* the cursor stands on it, and only such a line is: none is the first line
\* or the page line of an entry, but one that follows a number is taken as
\* its title line like any other; a bare lowercase roman numeral is no noise.
C23_NoiseSkippedAtCursor ==
    /\ \A k \in DOMAIN trace : trace[k].kind = "noise" <=> HeaderNoise(FirstLineOf(k))
    /\ \A k \in EntrySteps : ~HeaderNoise(FirstLineOf(k)) /\ ~HeaderNoise(PageLineOf(k))

\* 'Contents' after a number was taken as the title of an entry, and the
\* date after it was skipped
C23_Witness ==
    /\ pc = "returned"
    /\ locals.lines = <<L_1, P_Contents, L_5, L_Date>>
    /\ trace[1].kind = "entry" /\ TitleLinesOf(1) = {P_Contents}
    /\ trace[2].kind = "noise"
    /\ Len(result.entries) = 1

(***************************************************************************)
(* The specification of _try_match_section_pattern: it is called on every  *)
(* line made of one of the numberings and one of the titles below.         *)
(***************************************************************************)
\* Chapter 1:
Q_Chapter == <<"C", "h", "a", "p", "t", "e", "r", " ", "1", ":", " ">>
\* chapter 2
Q_chapter == <<"c", "h", "a", "p", "t", "e", "r", " ", "2", " ">>
\* CHAPTER 3:
Q_CHAPTER == <<"C", "H", "A", "P", "T", "E", "R", " ", "3", ":", " ">>
Q_Subsub == <<"1", ".", "2", ".", "3", " ">>
Q_Sub == <<"1", ".", "2", " ">>
Q_Sec == <<"1", ".", " ">>
Q_SecBare == <<"7", " ">>
Q_Sec20 == <<"2", "0", ".", " ">>
Q_Sec21 == <<"2", "1", " ">>
Q_Sec123 == <<"1", "2", "3", " ">>

PatternNumberings ==
    {<<>>, Q_Chapter, Q_chapter, Q_CHAPTER, Q_Subsub, Q_Sub, Q_Sec, Q_SecBare, Q_Sec20, Q_Sec21,
     Q_Sec123}
\* titles of 1, 2, 3 and 7 characters, and one of 2 characters before a blank
PatternTitles == {<<"a">>, <<"a", "b">>, <<"a", "b", "c">>, H_Results, <<"a", "b", " ">>}
PatternLines == {n \o t : n \in PatternNumberings, t \in PatternTitles}
PatternPages == {1, 2}

InitPattern ==
    /\ pc = "call"
    /\ \E line \in PatternLines, page_num \in PatternPages :
          input = [line |-> line, page_num |-> page_num]
    /\ files = [p \in Paths |-> NoFile]
    /\ result = NoEntry
    /\ locals = NoLocals
    /\ handles = {}
    /\ trace = <<>>

\* _try_match_section_pattern(line, page_num)
CallMatcher ==
    /\ pc = "call"
    /\ result' = _try_match_section_pattern(input.line, input.page_num)
    /\ pc' = "returned"
    /\ trace' = Append(trace, "_try_match_section_pattern")
    /\ UNCHANGED <<input, files, locals, handles>>

NextPattern == CallMatcher

SpecPattern == InitPattern /\ [][NextPattern]_vars

(***************************************************************************)
(* Properties of _try_match_section_pattern, under SpecPattern.            *)
(***************************************************************************)
\* the line has the shape of re, with a title of min characters or more in
\* group g once trimmed
HasShape(re, flags, g, min) ==
    /\ ReMatch(re, input.line, flags).ok
    /\ Len(Strip(ReMatch(re, input.line, flags).caps[g])) >= min

SecNumberOK == ParseInt(ReMatch(SecLineRe, input.line, PlainFlags).caps[1]) <= 20

\* the level of the first shape that applies, 0 if none does, where a title
\* of the chapter form needs min characters
LevelOfShape(min) ==
    IF HasShape(ChapterLineRe, IgnoreCase, 3, min) THEN 1
    ELSE IF HasShape(SubsubLineRe, PlainFlags, 2, 3) THEN 4
    ELSE IF HasShape(SubLineRe, PlainFlags, 2, 3) THEN 3
    ELSE IF HasShape(SecLineRe, PlainFlags, 2, 3) /\ SecNumberOK THEN 2
    ELSE 0

\* what is returned is the entry of the first shape that applies, on the
\* page given, or no entry if none applies
ReturnsFirstShape(min) ==
    pc = "returned" =>
        /\ result.ok <=> LevelOfShape(min) # 0
        /\ result.ok =>
              /\ result.entry.level = LevelOfShape(min)
              /\ result.entry.page = input.page_num

\* C24 as stated: the shapes are tried in the order 'Chapter N: Title' (level
\* 1), 'N.N.N Title' (level 4), 'N.N Title' (level 3), 'N[.] Title' with
\* N <= 20 (level 2), the entry of the first that applies is returned, none
\* if no shape fits; a title needs 3 characters, 2 in the chapter form.
C24_ChapterTitleOfTwo == ReturnsFirstShape(2)

\* C24 as amended: the same, a title needing 3 characters in every form, the
\* chapter form too.
C24_TitleOfThree == ReturnsFirstShape(3)

\* 'Chapter 1: ab' gave no entry
C24_Witness ==
    /\ pc = "returned"
    /\ input.line = Q_Chapter \o <<"a", "b">>
    /\ ~result.ok

(***************************************************************************)
(* The specification of the scan of one page by extract_section_headers,   *)
(* one step for each iteration of its while loop.  The page is made of at  *)
(* most MaxHeaderLines of the lines below, alone or between three lines of *)
(* body text on each side; trace records each iteration.                   *)
(***************************************************************************)
MaxHeaderLines == 3

L_3 == <<"3">>
HeaderLines == {L_1, L_3, H_Results, H_results, N_1 \o H_Results, <<>>}
BodyLines == <<P_Body, P_Body, P_Body>>
HeaderCores == UNION {[1..n -> HeaderLines] : n \in 0..MaxHeaderLines}
HeaderPageLines == HeaderCores \cup {BodyLines \o core \o BodyLines : core \in HeaderCores}

InitHeaders ==
    /\ pc = "scan"
    /\ \E lines \in HeaderPageLines, page_idx \in {0, 1},
          vocabulary \in {{}, {W_Results}} :
          input = [text |-> Join(lines, <<"\n">>), page_idx |-> page_idx,
                   vocabulary |-> vocabulary, starters |-> Starters]
    /\ locals = [lines |-> StripAll(Split(input.text, "\n")), i |-> 0, seen |-> {},
                 toc_entries |-> <<>>]
    /\ files = [p \in Paths |-> NoFile]
    /\ result = [returned |-> FALSE, entries |-> <<>>]
    /\ handles = {}
    /\ trace = <<>>

\* the locals after an iteration that ended with scored, and the step taken
AfterIteration(it) ==
    /\ locals' = [locals EXCEPT
                     !.i = IF it.kind = "combined" /\ Acceptable(it.scored)
                           THEN locals.i + 2 ELSE locals.i + 1,
                     !.seen = IF Acceptable(it.scored)
                              THEN locals.seen \cup {DedupKey(it.scored.entry)} ELSE locals.seen,
                     !.toc_entries = IF Acceptable(it.scored)
                                        /\ DedupKey(it.scored.entry) \notin locals.seen
                                     THEN Append(locals.toc_entries, it.scored.entry)
                                     ELSE locals.toc_entries]
    /\ trace' = Append(trace, [kind |-> it.kind, accepted |-> Acceptable(it.scored),
                               at |-> locals.i, to |-> locals'.i])

\* one iteration of the while loop
ScanHeaderLine ==
    /\ pc = "scan" /\ locals.i < Len(locals.lines)
    /\ AfterIteration(IterationAt(locals.lines, locals.i, input.page_idx, input.vocabulary,
                                  input.starters,
                                  _score_section_header(locals.lines[locals.i + 1],
                                                        input.page_idx + 1, input.vocabulary,
                                                        input.starters)))
    /\ pc' = "scan"
    /\ UNCHANGED <<input, result, files, handles>>

\* the loop ends
EndPage ==
    /\ pc = "scan" /\ locals.i >= Len(locals.lines)
    /\ result' = [returned |-> TRUE, entries |-> locals.toc_entries]
    /\ pc' = "returned"
    /\ UNCHANGED <<input, files, locals, handles, trace>>

NextHeaders == ScanHeaderLine \/ EndPage

SpecHeaders == InitHeaders /\ [][NextHeaders]_vars

(***************************************************************************)
(* Properties of the scan of a page, under SpecHeaders.                    *)
(***************************************************************************)
\* line j (from 1) is a bare number
BareNumber(j) == ReMatch(BareNumberRe, locals.lines[j], PlainFlags).ok

\* line j is a bare number in the first 3 or last 3 lines of the page whose
\* leading integer is the number of the page
RunningPageNumber(j) ==
    /\ BareNumber(j)
    /\ j <= 3 \/ j > Len(locals.lines) - 3
    /\ ParseInt(Split(locals.lines[j], ".")[1]) = input.page_idx + 1

StartsUppercase(j) == locals.lines[j] # <<>> /\ locals.lines[j][1] \in UpperChars

\* the steps that gave an entry, or found it seen already
AcceptingSteps == {k \in DOMAIN trace : trace[k].accepted}

\* C25: a bare section number is combined with the next line only if that
\* line starts with an uppercase letter and the number is no running page
\* number; a bare number in the first 3 or last 3 lines of the page whose
\* leading integer is the 1-based page index contributes to no entry; when
\* the combined line is accepted both lines are consumed, and otherwise the
\* next line is scanned on its own.
C25_CombineWithNextLine ==
    /\ \A k \in DOMAIN trace :
          /\ trace[k].kind = "combined" =>
                /\ BareNumber(trace[k].at + 1)
                /\ StartsUppercase(trace[k].at + 2)
                /\ ~RunningPageNumber(trace[k].at + 1)
          /\ trace[k].to = (IF trace[k].kind = "combined" /\ trace[k].accepted
                            THEN trace[k].at + 2 ELSE trace[k].at + 1)
          /\ trace[k].at = (IF k = 1 THEN 0 ELSE trace[k - 1].to)
    /\ \A k \in AcceptingSteps : \A j \in (trace[k].at + 1)..trace[k].to : ~RunningPageNumber(j)
    /\ \A e \in Range(locals.toc_entries) :
          \E k \in AcceptingSteps :
              e.title \in {locals.lines[trace[k].at + 1],
                           locals.lines[trace[k].at + 1] \o <<".", " ">> \o locals.lines[trace[k].to]}
    /\ pc = "returned" => \A j \in DOMAIN locals.lines : \E k \in DOMAIN trace :
                              j \in (trace[k].at + 1)..trace[k].to

\* on page 1, among body text, '1' was combined with 'Results' and both lines
\* were consumed
C25_Witness ==
    /\ pc = "returned"
    /\ input.page_idx = 0
    /\ \E k \in DOMAIN trace :
          /\ trace[k].kind = "combined" /\ trace[k].accepted
          /\ locals.lines[trace[k].at + 1] = L_1
          /\ Len(locals.toc_entries) = 1

(***************************************************************************)
(* The specification of _find_page_offset, one step for each part of the   *)
(* function and one for each test entry.  The entries are every list of at *)
(* most MaxOffsetEntries entries, alone or with six entries of high or of  *)
(* low pages before or after it; trace records what each test entry gave.  *)
(***************************************************************************)
MaxOffsetEntries == 2

\* Contents\nThe basic ideas
P_ContentsIdeas == P_Contents \o <<"\n">> \o P_Ideas

OffsetPages == {6, 9, 21, 22}
OffsetTitles == {T_Ideas, T_Results, T_Short, H_Results}
OffsetChoices == {TocEntry(1, title, page) : title \in OffsetTitles, page \in OffsetPages}
FewEntries == UNION {[1..n -> OffsetChoices] : n \in 0..MaxOffsetEntries}
ManyHigh == [k \in 1..6 |-> TocEntry(1, T_Ideas, 27 - k)]
ManyLow == [k \in 1..6 |-> TocEntry(1, T_Ideas, 12 - k)]
OffsetEntryLists ==
    FewEntries \cup {ManyHigh \o few : few \in FewEntries} \cup {few \o ManyHigh : few \in FewEntries}
               \cup {ManyLow \o few : few \in FewEntries} \cup {few \o ManyLow : few \in FewEntries}

\* 18 pages, the 17th names the contents and holds the words of T_Ideas
LateContents == [k \in 1..18 |-> IF k = 17 THEN P_ContentsIdeas ELSE P_Body]
OffsetDocs ==
    {<<P_Ideas, P_Results, P_Ideas>>,
     <<P_ContentsIdeas, P_Ideas, P_Body, P_Body, P_Ideas>>,
     <<P_Contents, P_Body, P_Body, P_Ideas, P_Body, P_Body, P_Body, P_Results, P_Body>>,
     LateContents}

InitOffset ==
    /\ pc = "find_page_offset"
    /\ \E pages \in OffsetDocs, toc_entries \in OffsetEntryLists :
          input = [doc |-> Document(pages, <<>>), toc_entries |-> toc_entries]
    /\ locals = [toc_page_indices |-> {}, test_entries |-> <<>>, k |-> 0, offsets |-> <<>>]
    /\ files = [p \in Paths |-> NoFile]
    /\ result = [returned |-> FALSE, offset |-> 0]
    /\ handles = {}
    /\ trace = <<>>

\* if not toc_entries: return 0
NoEntries ==
    /\ pc = "find_page_offset" /\ input.toc_entries = <<>>
    /\ result' = [returned |-> TRUE, offset |-> 0]
    /\ pc' = "returned"
    /\ UNCHANGED <<input, files, locals, handles, trace>>

\* the loop that marks the contents pages and the pages around them
MarkTocPages ==
    /\ pc = "find_page_offset" /\ input.toc_entries # <<>>
    /\ locals' = [locals EXCEPT !.toc_page_indices = TocPageIndices(input.doc)]
    /\ pc' = "select"
    /\ UNCHANGED <<input, result, files, handles, trace>>

\* the choice of the test entries
SelectTestEntries ==
    /\ pc = "select"
    /\ locals' = [locals EXCEPT !.test_entries = TestEntries(input.toc_entries)]
    /\ pc' = "probe"
    /\ UNCHANGED <<input, result, files, handles, trace>>

\* one iteration of the loop over the test entries
ProbeEntry ==
    /\ pc = "probe" /\ locals.k < Len(locals.test_entries)
    /\ LET entry == locals.test_entries[locals.k + 1]
           words == FindAllText(KeywordRe, entry.title, PlainFlags)
           recorded == FirstFit(input.doc, entry, words, locals.toc_page_indices)
       IN  /\ locals' = [locals EXCEPT !.k = locals.k + 1, !.offsets = locals.offsets \o recorded]
           /\ trace' = Append(trace, [entry |-> entry, words |-> words, recorded |-> recorded])
    /\ pc' = "probe"
    /\ UNCHANGED <<input, result, files, handles>>

\* the offset returned after the loop
ReturnOffset ==
    /\ pc = "probe" /\ locals.k >= Len(locals.test_entries)
    /\ result' = [returned |-> TRUE, offset |-> OffsetOf(locals.offsets)]
    /\ pc' = "returned"
    /\ UNCHANGED <<input, files, locals, handles, trace>>

NextOffset == NoEntries \/ MarkTocPages \/ SelectTestEntries \/ ProbeEntry \/ ReturnOffset

SpecOffset == InitOffset /\ [][NextOffset]_vars

(***************************************************************************)
(* Properties of _find_page_offset, under SpecOffset.                      *)
(***************************************************************************)
\* the places in toc_entries of the entries above a page
PlacesAbove(page) == {k \in DOMAIN input.toc_entries : input.toc_entries[k].page > page}
Candidates == IF PlacesAbove(20) # {} THEN PlacesAbove(20) ELSE PlacesAbove(5)

\* the page an offset gives an entry, from 0
TargetPage(entry, o) == entry.page + o - 1

\* the page of the document holds at least min(2, word_count) of the words
HoldsKeywords(idx, words) ==
    Cardinality({w \in DOMAIN words :
                    Contains(StrLower(input.doc.pages[idx + 1]), StrLower(words[w]))})
        >= Min2(2, Len(words))

\* the offset o puts the entry on a page in range, not excluded, with the words
Probed(entry, words, o) ==
    /\ TargetPage(entry, o) \in 0..(PageCount(input.doc) - 1)
    /\ TargetPage(entry, o) \notin locals.toc_page_indices
    /\ HoldsKeywords(TargetPage(entry, o), words)

FittingOffsets(entry, words) == {o \in (-20)..29 : Probed(entry, words, o)}

\* C26: at most 5 entries are tested, those with a page above 20 if there are
\* any and else those with a page above 5; an entry whose title has at least
\* 2 words of 5 letters or more records the first offset of [-20, 30), in
\* ascending order, whose page is in range, not excluded and holds the words,
\* and nothing after it; an entry records at most one offset, and one with
\* fewer than 2 such words records none.
C26_FirstFittingOffset ==
    /\ Len(trace) <= 5
    /\ pc \in {"probe", "returned"} =>
          /\ Len(locals.test_entries) = Min2(5, Cardinality(Candidates))
          /\ \A e \in Range(locals.test_entries) : \E k \in Candidates : input.toc_entries[k] = e
    /\ \A k \in DOMAIN trace :
          LET fits == FittingOffsets(trace[k].entry, trace[k].words)
          IN  /\ trace[k].entry = locals.test_entries[k]
              /\ \A w \in Range(trace[k].words) : Len(w) >= 5
              /\ Len(trace[k].recorded) <= 1
              /\ Len(trace[k].words) < 2 => trace[k].recorded = <<>>
              /\ Len(trace[k].words) >= 2 =>
                    trace[k].recorded = (IF fits = {} THEN <<>> ELSE <<SetMin(fits)>>)
    /\ Len(locals.offsets) = Cardinality({k \in DOMAIN trace : trace[k].recorded # <<>>})
    /\ pc = "returned" /\ input.toc_entries # <<>> => Len(trace) = Len(locals.test_entries)

\* of more than 5 entries above page 20, 5 were tested; one of them recorded
\* the first of two offsets that fit, one recorded none, and an entry with a
\* title of one word was passed over
C26_Witness ==
    /\ pc = "returned"
    /\ Cardinality(PlacesAbove(20)) > 5
    /\ Len(trace) = 5
    /\ \E k \in DOMAIN trace :
          /\ Cardinality(FittingOffsets(trace[k].entry, trace[k].words)) > 1
          /\ trace[k].recorded # <<>>
    /\ \E k \in DOMAIN trace : Len(trace[k].words) >= 2 /\ trace[k].recorded = <<>>
    /\ \E k \in DOMAIN trace : Len(trace[k].words) = 1

\* the pages, from 0, among the first n of the document whose text names the
\* contents, and those pages with their neighbours at -1, +1 and +2
NamingContents(n) ==
    {i \in 0..(Min2(n, PageCount(input.doc)) - 1) :
        Contains(StrLower(input.doc.pages[i + 1]), StrLower(P_Contents))}
ExcludedAround(naming) ==
    {i \in 0..(PageCount(input.doc) - 1) : \E d \in {-1, 0, 1, 2} : (i - d) \in naming}

\* the pages that the offsets recorded put their entries on
RecordedTargets ==
    {TargetPage(trace[k].entry, trace[k].recorded[1]) :
        k \in {j \in DOMAIN trace : trace[j].recorded # <<>>}}

\* C27: no offset is recorded whose page names the contents, or is the
\* neighbour at -1, +1 or +2 of a page that does, whichever page of the
\* document that is.
C27_NoTocPageTarget ==
    RecordedTargets \cap ExcludedAround(NamingContents(PageCount(input.doc))) = {}

\* C27, amended: no offset is recorded whose page is one of the first 15
\* pages of the document and names the contents, or is the neighbour at -1,
\* +1 or +2 of such a page.
C27_NoEarlyTocPageTarget ==
    /\ RecordedTargets \cap ExcludedAround(NamingContents(15)) = {}
    /\ pc \in {"select", "probe"} =>
          locals.toc_page_indices = ExcludedAround(NamingContents(15))

\* an entry recorded an offset after one that put it, in range and with its
\* words, on an excluded page
C27_Witness ==
    /\ pc = "returned"
    /\ \E k \in DOMAIN trace :
          /\ trace[k].recorded # <<>>
          /\ \E o \in (-20)..29 :
                /\ o < trace[k].recorded[1]
                /\ TargetPage(trace[k].entry, o) \in ExcludedAround(NamingContents(15))
                /\ HoldsKeywords(TargetPage(trace[k].entry, o), trace[k].words)

(***************************************************************************)
(* The specification of process_pdf: each source file below, with each     *)
(* choice of skip_ocr and force_ocr, called as the signature of            *)
(* process_pdf allows (mode "none") or with mode passed as cli.py and the  *)
(* tests pass it.                                                          *)
(***************************************************************************)
\* Contents\nPart I: Aa ... 1\n1. Bb ... 2\nPart II: Cc ... 6
ToC_Book ==
    <<"C", "o", "n", "t", "e", "n", "t", "s", "\n", "P", "a", "r", "t", " ", "I", ":", " ",
    "A", "a", " ", ".", ".", ".", " ", "1", "\n", "1", ".", " ", "B", "b", " ", ".", ".",
    ".", " ", "2", "\n", "P", "a", "r", "t", " ", "I", "I", ":", " ", "C", "c", " ", ".",
    ".", ".", " ", "6">>
\* Contents\n1. Bb ... 2
ToC_Small ==
    <<"C", "o", "n", "t", "e", "n", "t", "s", "\n", "1", ".", " ", "B", "b", " ", ".", ".",
    ".", " ", "2">>
\* Contents\n1\nIntro\n5
ToC_Lines ==
    <<"C", "o", "n", "t", "e", "n", "t", "s", "\n", "1", "\n", "I", "n", "t", "r", "o",
    "\n", "5">>
\* 1. Introduction
P_Paper ==
    <<"1", ".", " ", "I", "n", "t", "r", "o", "d", "u", "c", "t", "i", "o", "n">>

\* a page of text long enough for pdf_has_text
Filler == [i \in 1..(MinTextLength + 1) |-> "x"]

\* an outline verify_bookmarks accepts on a document of two pages
Outline_Valid == <<TocEntry(1, T_Short, 1), TocEntry(2, T_Short, 2)>>

\* a book whose contents page names a page beyond its last one
DocBook == PdfFile(<<ToC_Book, Filler>>, <<>>, <<ToC_Book, Filler>>)
\* a scan without a text layer
DocScanned == PdfFile(<<<<>>, <<>>>>, <<>>, <<ToC_Lines, Filler>>)
\* documents that come with a valid outline, with and without a contents page
DocOutlined == PdfFile(<<ToC_Small, Filler>>, Outline_Valid, <<ToC_Small, Filler>>)
DocOutlinedNoToc == PdfFile(<<Filler, P_Body>>, Outline_Valid, <<Filler, P_Body>>)
\* a paper with numbered section headers and no contents page
DocPaper == PdfFile(<<P_Paper, Filler>>, <<>>, <<P_Paper, Filler>>)
\* a document with no contents page, no headers and no outline
DocPlain == PdfFile(<<Filler>>, <<>>, <<Filler>>)

SourceFiles == {DocBook, DocScanned, DocOutlined, DocOutlinedNoToc, DocPaper, DocPlain}

\* the values of ExtractionMode, and "none" for a call that passes no mode
Modes == {"none", "auto", "toc_page", "section_headers"}

Init ==
    /\ pc = "start"
    /\ \E source \in SourceFiles, skip_ocr \in BOOLEAN, force_ocr \in BOOLEAN, mode \in Modes :
          /\ input = [source |-> "source", output |-> "output", skip_ocr |-> skip_ocr,
                      force_ocr |-> force_ocr, mode |-> mode]
          /\ files = [p \in Paths |-> IF p = "source" THEN source ELSE NoFile]
    /\ result = "running"
    /\ locals = NoLocals
    /\ handles = {}
    /\ trace = <<>>

Next ==
    \/ CallWithMode \/ CallPlain
    \/ DecideOCR \/ OcrSucceeds \/ OcrFails \/ OcrToolMissing
    \/ OpenWorking \/ ExtractToc
    \/ AddOpen \/ ResolveOffset \/ Normalize \/ WriteOutline \/ SaveFails
    \/ Cleanup

Spec == Init /\ [][Next]_vars

\* the places of process_pdf where a call is over
Over == {"done", "raised"}

\* the places of process_pdf
Places ==
    {"start", "decide_ocr", "run_ocr", "open_working", "extract", "add_bookmarks",
     "find_offset", "normalize", "write", "added"} \cup Over

\* control leaves the statement it is at
Advance == pc \notin Over /\ pc' \in Places \ {pc}

\* process_pdf is one thread of control and waits for nothing: a call that
\* is not over does not stay at a statement for ever
SpecLive == Spec /\ WF_pc(Advance)

(***************************************************************************)
(* Properties of process_pdf, under Spec.                                  *)
(***************************************************************************)
\* the stages of a run that has passed name
Ran(name) == name \in Range(trace)

\* the stages that work on the document: OCR, the extractor, the offset
\* resolver, the normalizer and the outline writer
WorkStages == {"OCR", "Extract toc_page", "ResolveOffset", "Normalize", "WriteOutline"}

\* the source has an outline and verify_bookmarks reports it valid
HasValidOutline(file) ==
    /\ file.toc # <<>>
    /\ verify_bookmarks(OpenDocument(file), get_existing_bookmarks(OpenDocument(file))).is_valid

\* C5: if the source document already has an outline and the verifier reports
\* it valid, no OCR, extractor, normalizer, offset resolver or outline writer
\* runs, and the run ends with the source copied unchanged to the output path.
C5_ValidOutlineShortcut ==
    HasValidOutline(files["source"]) =>
        /\ Range(trace) \cap WorkStages = {}
        /\ pc = "done" => files["output"] = files["source"]

\* OCR is invoked: process_pdf is at the call of run_ocr, or past it
OcrInvoked == pc = "run_ocr" \/ Ran("OCR")

\* C6: once process_pdf has decided, the OCR step is invoked iff skip_ocr is
\* false and (force_ocr is true or the classifier reports no extractable
\* text); with skip_ocr true OCR is never invoked and the stage after the
\* decision is extraction.
C6_OcrIffNeeded ==
    Ran("DecideOCR") =>
        /\ OcrInvoked <=>
              (~input.skip_ocr /\ (input.force_ocr \/ ~pdf_has_text(OpenDocument(files["source"]))))
        /\ input.skip_ocr =>
              /\ ~OcrInvoked
              /\ Len(trace) >= 2 => trace[2] = "Extract toc_page"

\* a run with skip_ocr and force_ocr both set, on a source without text, ended
\* without OCR
C6_Witness ==
    /\ pc = "done"
    /\ input.skip_ocr /\ input.force_ocr
    /\ ~pdf_has_text(OpenDocument(files["source"]))
    /\ trace = <<"DecideOCR", "Extract toc_page", "ResolveOffset", "Normalize",
                 "WriteOutline", "Done">>

\* C7: whenever the OCR step fails, by a failing exit status of the tool or
\* because the tool is missing, process_pdf does not abort: the working
\* document is the source, and the run ends with the output written.
C7_OcrFailureDegrades ==
    locals.ocr \in {"RuntimeError", "FileNotFoundError"} =>
        /\ pc # "raised"
        /\ locals.working_pdf = "source"
        /\ pc = "done" => files["output"].exists

C9_ModeDispatch ==
    /\ input.mode # "none" => result # "TypeError"
    /\ (pc = "done" /\ input.mode = "auto") =>
          /\ Ran("Extract toc_page")
          /\ Ran("Extract section_headers") <=>
                (extract_toc_from_text(OpenDocument(files["source"])) = <<>>)
    /\ (pc = "done" /\ input.mode = "toc_page") =>
          Ran("Extract toc_page") /\ ~Ran("Extract section_headers")
    /\ (pc = "done" /\ input.mode = "section_headers") =>
          Ran("Extract section_headers") /\ ~Ran("Extract toc_page")

\* the function that holds the document open at each place of process_pdf
HolderAt(place) ==
    CASE place = "decide_ocr" -> {"pdf_has_text"}
      [] place = "extract" -> {"process_pdf"}
      [] place \in {"find_offset", "normalize", "write"} -> {"add_bookmarks"}
      [] OTHER -> {}

\* C19 as stated: the document is accessed through a single scoped handle,
\* acquired at the start of the invocation and released before it returns or
\* fails: one handle is open from the start to the end of the run, never two,
\* and none once process_pdf has returned or raised.
C19_SingleHandle ==
    /\ Cardinality(handles) <= 1
    /\ pc \in {"done", "raised"} => handles = {}
    /\ pc \notin {"start", "done", "raised"} => handles # {}

\* C19 as amended: the document is accessed through scoped handles, one for
\* each function that reads it (pdf_has_text, process_pdf for the extraction,
\* add_bookmarks), acquired when the function starts and released when it
\* ends, also when it raises: at most one handle is open in every reachable
\* state, and none once process_pdf has returned or raised.
C19_ScopedHandles ==
    /\ Cardinality(handles) <= 1
    /\ pc \in {"done", "raised"} => handles = {}
    /\ handles = HolderAt(pc)

\* doc.save raised in add_bookmarks, after the three handles were opened in
\* turn, and process_pdf failed with no handle open
C19_Witness ==
    /\ pc = "raised" /\ result = "save failed"
    /\ Ran("DecideOCR") /\ Ran("Extract toc_page") /\ Ran("Normalize")
    /\ handles = {}

\* the outline read back from a file, and what verify_bookmarks says of it
OutlineOf(file) == get_existing_bookmarks(OpenDocument(file))
Verified(file) == verify_bookmarks(OpenDocument(file), OutlineOf(file))

PlaceIn(order, name) ==
    IF name \in Range(order) THEN CHOOSE k \in DOMAIN order : order[k] = name ELSE 0

\* the stages passed are stages of order, each once, in that order; the
\* outline is written only after the normalizer and the offset resolver; a
\* run that is done has passed every stage, but for OCR
PassedInOrder(order) ==
    /\ \A k \in DOMAIN trace : PlaceIn(order, trace[k]) > 0
    /\ \A j, k \in DOMAIN trace : j < k => PlaceIn(order, trace[j]) < PlaceIn(order, trace[k])
    /\ Ran("WriteOutline") => Ran("Normalize") /\ Ran("ResolveOffset")
    /\ pc = "done" => Range(order) \ {"OCR"} \subseteq Range(trace)

\* C28 as stated: a run passes the stages in the order DecideOCR, optional
\* OCR, Extract, Normalize, ResolveOffset, WriteOutline, Done, each at most
\* once, Normalize before ResolveOffset and the outline after both, and every
\* run eventually reaches Done.
C28_NormalizeThenOffset ==
    /\ [](PassedInOrder(<<"DecideOCR", "OCR", "Extract toc_page", "Normalize", "ResolveOffset",
                          "WriteOutline", "Done">>))
    /\ <>(pc = "done")

\* C28 as amended: a run passes the stages in the order DecideOCR, optional
\* OCR, Extract, ResolveOffset, Normalize, WriteOutline, Done, each at most
\* once, ResolveOffset before Normalize and the outline after both, and every
\* run eventually reaches Done or raises.
C28_OffsetThenNormalize ==
    /\ [](PassedInOrder(<<"DecideOCR", "OCR", "Extract toc_page", "ResolveOffset", "Normalize",
                          "WriteOutline", "Done">>))
    /\ <>(pc \in {"done", "raised"})

\* a run with OCR passed every stage and is done
C28_Witness ==
    /\ pc = "done"
    /\ trace = <<"DecideOCR", "OCR", "Extract toc_page", "ResolveOffset", "Normalize",
                 "WriteOutline", "Done">>

\* C30: the temporary file that process_pdf creates for the OCR output does
\* not exist any more when process_pdf has returned or raised, whether OCR
\* succeeded, failed by RuntimeError or by another exception, or a later
\* step raised.
C30_TempFileGone ==
    pc \in Over => ~files["tmp"].exists


=============================================================================
